---------------------------- MODULE Spec2Model ----------------------------
(***************************************************************************)
(* SIM800C driver (src/src/sim800c.py): the AT-command transaction engine  *)
(* send_at_command, the two status reconcilers built on it and the baud    *)
(* search; the SMS parser (src/src/read_sms.py), the SMS submission        *)
(* (src/src/send_sms.py) and the connection sessions.                      *)
(*                                                                         *)
(* Text is modelled by TLA+ strings, character by character (Len, SubSeq,  *)
(* \o).  Time is counted in ticks of 10 ms; the clock is read relative to  *)
(* the start of the current transaction, a sleep takes exactly its         *)
(* duration and every other statement takes no time.                       *)
(***************************************************************************)
EXTENDS Integers, Sequences, FiniteSets, TLC

(***************************************************************************)
(* Bounds of the model.                                                    *)
(***************************************************************************)
\* readline calls the modem feeds during one transaction
MaxReads == 2
\* the modem emits a line at most this many ticks after the write or after
\* its previous line; later it stays silent
MaxLatency == 5
\* pieces a reply handed to parse_response_value is made of
MaxPieces == 3
\* transport errors (a failed open, a failed read or write) during one call
MaxFaults == 1
\* lines of a text handed to parse_sms_messages
MaxLines == 4
\* calls of parse_sms_messages on one text
MaxParses == 2
\* pieces a content line handed to the decode is made of
MaxUnits == 3
\* messages send_sms is called with
MaxMessages == 2

(***************************************************************************)
(* Program constants, in ticks of 10 ms.                                   *)
(***************************************************************************)
DefaultTimeout == 200
ProbeTimeout == 100
InitialWait == 30
InitialSleep == 5
PollSleep == 1
QuiescenceWindow == 5
PowerSettle == 200
PinSettle == 100
DefaultBaudrate == 115200
ReadTimeout == 100
ProbeReadTimeout == 50

(***************************************************************************)
(* Python string primitives.                                               *)
(***************************************************************************)
Whitespace == {" ", "\t", "\r", "\n", "\f"}

\* sub in s
Contains(s, sub) ==
    \E i \in 1..(Len(s) - Len(sub) + 1) : SubSeq(s, i, i + Len(sub) - 1) = sub

\* s.strip()
RECURSIVE LStrip(_)
LStrip(s) ==
    IF Len(s) > 0 /\ SubSeq(s, 1, 1) \in Whitespace
    THEN LStrip(SubSeq(s, 2, Len(s)))
    ELSE s

RECURSIVE RStrip(_)
RStrip(s) ==
    IF Len(s) > 0 /\ SubSeq(s, Len(s), Len(s)) \in Whitespace
    THEN RStrip(SubSeq(s, 1, Len(s) - 1))
    ELSE s

Strip(s) == RStrip(LStrip(s))

\* sep.join(lines)
RECURSIVE Join(_, _)
Join(lines, sep) ==
    IF Len(lines) = 0 THEN ""
    ELSE IF Len(lines) = 1 THEN lines[1]
    ELSE lines[1] \o sep \o Join(Tail(lines), sep)

\* the smallest i at which sub occurs in s, 0 if it does not
FirstIndex(s, sub) ==
    IF Contains(s, sub)
    THEN CHOOSE i \in 1..(Len(s) - Len(sub) + 1) :
            /\ SubSeq(s, i, i + Len(sub) - 1) = sub
            /\ \A j \in 1..(i - 1) : SubSeq(s, j, j + Len(sub) - 1) # sub
    ELSE 0

\* s.split(sep)[1], for a non-empty sep that occurs in s: the text between
\* the first occurrence of sep and the next one (or the end of s)
SplitSecond(s, sep) ==
    LET rest == SubSeq(s, FirstIndex(s, sep) + Len(sep), Len(s))
        j == FirstIndex(rest, sep)
    IN  IF j = 0 THEN rest ELSE SubSeq(rest, 1, j - 1)

\* s.split()[0] for a stripped s: the characters before its first whitespace
RECURSIVE FirstWord(_)
FirstWord(s) ==
    IF s = "" \/ SubSeq(s, 1, 1) \in Whitespace THEN ""
    ELSE SubSeq(s, 1, 1) \o FirstWord(SubSeq(s, 2, Len(s)))

Digits == {"0", "1", "2", "3", "4", "5", "6", "7", "8", "9"}

DigitValue(c) ==
    CASE c = "0" -> 0 [] c = "1" -> 1 [] c = "2" -> 2 [] c = "3" -> 3
      [] c = "4" -> 4 [] c = "5" -> 5 [] c = "6" -> 6 [] c = "7" -> 7
      [] c = "8" -> 8 [] c = "9" -> 9

\* the digit strings int() accepts: digits, with single underscores between
IsDigitString(s) ==
    /\ Len(s) > 0
    /\ SubSeq(s, 1, 1) \in Digits
    /\ SubSeq(s, Len(s), Len(s)) \in Digits
    /\ \A i \in 1..Len(s) : SubSeq(s, i, i) \in Digits \cup {"_"}
    /\ \A i \in 1..(Len(s) - 1) : SubSeq(s, i, i + 1) # "__"

RECURSIVE DigitStringValue(_)
DigitStringValue(s) ==
    IF s = "" THEN 0
    ELSE LET c == SubSeq(s, Len(s), Len(s))
             init == SubSeq(s, 1, Len(s) - 1)
         IN  IF c = "_" THEN DigitStringValue(init)
             ELSE 10 * DigitStringValue(init) + DigitValue(c)

None == <<>>
Some(v) == <<v>>

\* int(s) for a string without whitespace: Some(n), or None for ValueError
PyInt(s) ==
    LET signed == Len(s) > 0 /\ SubSeq(s, 1, 1) \in {"+", "-"}
        body == IF signed THEN SubSeq(s, 2, Len(s)) ELSE s
        n == DigitStringValue(body)
    IN  IF ~IsDigitString(body) THEN None
        ELSE IF signed /\ SubSeq(s, 1, 1) = "-" THEN Some(0 - n)
        ELSE Some(n)

(***************************************************************************)
(* The driver's state.                                                     *)
(***************************************************************************)
VARIABLES
    ser,        \* self.ser: "none" (None), "open" or "closed" (is_open)
    sms,        \* the text handed to parse_sms_messages and what it returned
    sub,        \* the locals of send_sms and send_sms_message
    session,    \* the calls initialize or read_and_connect has made
    link,       \* self.baudrate, self.timeout, the handle's settings, the
                \* handles open on the port, the serial.Serial calls and the
                \* transport errors of the call
    op,         \* the driver call in progress and its arguments
    pc,         \* where that call stands
    tx,         \* the locals of send_at_command and where it stands
    clock,      \* time.time(), counted from the transaction's start_time
    modem,      \* time of the modem's last event and the lines it has emitted
    iolog,      \* resets and writes done on the link during the call
    result,     \* what the last send_at_command returned
    query_result,   \* result / set_result / current_value of the reconcilers
    set_result,
    current_value,
    supplier_calls, \* invocations of set_cmd_func during the call
    slept,      \* ticks the call slept outside the capture loops
    ret         \* what the call returned (reconcilers, parse_response_value)

vars == <<ser, link, sms, sub, session, op, pc, tx, clock, modem, iolog,
          result, query_result, set_result, current_value, supplier_calls,
          slept, ret>>

NoResult == [success |-> FALSE, data |-> "", none |-> TRUE]
MkResult(s, d) == [success |-> s, data |-> d, none |-> FALSE]

NoOp == [name |-> "none", command |-> "", timeout |-> 0, query_cmd |-> "",
         prefix |-> "", expected_value |-> 0, ready_value |-> "",
         set_cmd |-> "", status_name |-> "", data |-> "",
         supplied |-> "unasked", candidate |-> 0]

IdleTx == [at |-> "idle", command |-> "", timeout |-> 0, start_time |-> 0,
           response_lines |-> <<>>, final_response_seen |-> FALSE,
           last_data_time |-> 0, waited_initial |-> FALSE,
           resets |-> 0, writes |-> 0, reads |-> 0]

SilentModem == [last |-> 0, emitted |-> 0]

\* send_sms is not running
NoSub == [messages |-> <<>>, i |-> 0, success_count |-> 0, start |-> 0,
          at |-> "idle", response_lines |-> <<>>, prompt_line |-> "",
          reads |-> 0, ended |-> "",
          result |-> NoResult, attempted |-> <<>>, results |-> <<>>]

\* no session is running
NoSession == [flow |-> "none", at |-> "idle", k |-> 0, detected |-> FALSE,
              calls |-> <<>>, pending |-> <<>>]

\* no text has been handed to parse_sms_messages
NoSms == [lines |-> <<>>, data |-> "", returns |-> <<>>, printed |-> <<>>,
          attempts |-> <<>>]

\* self.ser and self.ser.is_open
IsOpen == ser = "open"

\* a driver constructed with the given baudrate, whose link is in the given
\* state: never opened, opened by connect(), or opened and closed again
LinkOf(baudrate, s) ==
    [baudrate |-> baudrate, timeout |-> ReadTimeout,
     ser_baudrate |-> IF s = "none" THEN 0 ELSE baudrate,
     ser_timeout |-> IF s = "none" THEN 0 ELSE ReadTimeout,
     handles |-> IF s = "open" THEN 1 ELSE 0,
     opens |-> <<>>, faults |-> 0]

(***************************************************************************)
(* The modem: the lines it may emit in reply to a command, as they come    *)
(* off the wire.  The first is the echo of the command.                    *)
(***************************************************************************)
ReplyPool(command) ==
    {command \o "\r\n", "OK\r\n", "ERROR\r\n"} \cup
    (CASE command = "AT" -> {"\r\n", "+CME ERROR: 10\r\n"}
       [] command = "ATI" -> {"SIM800 R14.18\r\n"}
       [] command = "AT+CFUN?" -> {"+CFUN: 1\r\n", "+CFUN: 0\r\n",
                                   "+CFUN: x\r\n"}
       [] command = "AT+CPIN?" -> {"+CPIN: READY\r\n", "+CPIN: SIM PIN\r\n"}
       [] OTHER -> {})

(***************************************************************************)
(* send_at_command.                                                        *)
(***************************************************************************)
\* mutant: only the success token marks the response as final
IsFinalOkOnly(line) == Contains(line, "OK")

\* 'OK' in line or 'ERROR' in line
IsFinal(line) == Contains(line, "OK") \/ Contains(line, "ERROR")

\* line not in ['AT', 'OK', 'ERROR']
KeepLine(line) == line \notin {"AT", "OK", "ERROR"}

\* '\n'.join(data_lines)
DataOf(response_lines) == Join(SelectSeq(response_lines, KeepLine), "\n")

\* mutant: the success token is looked for in the filtered lines
SuccessOfFiltered(response_lines) == Contains(DataOf(response_lines), "OK")

\* 'OK' in '\n'.join(response_lines)
SuccessOf(response_lines) == Contains(Join(response_lines, "\n"), "OK")

\* the while condition
WithinTimeout(start_time, timeout) == (clock - start_time) < timeout

\* mutant: the quiescence test forgets final_response_seen
QuiescentBreakUnseen(seen, last) == (clock - last) > QuiescenceWindow

\* final_response_seen and (time.time() - last_data_time) > 0.05
QuiescentBreak(seen, last) == seen /\ (clock - last) > QuiescenceWindow

\* the sleep that ends an iteration
SleepOf(waited, start_time) ==
    IF ~waited /\ (clock - start_time) < InitialWait
    THEN InitialSleep
    ELSE PollSleep

\* mutant: only self.ser is tested, not is_open
NotConnectedNoneOnly == ser = "none"

\* not self.ser or not self.ser.is_open
NotConnected == ~IsOpen

\* f"{command}", for a command that is Some(text) or None
CommandText(command) == IF command = None THEN "None" ELSE command[1]

\* mutant: the command is written without its line terminator
WireBare(command) == CommandText(command)

\* cmd = f"{command}\r\n"
Wire(command) == CommandText(command) \o "\r\n"

\* send_at_command, up to the capture loop; the command is Some(text) or None
StartTx(command, timeout) ==
    IF NotConnected
    THEN /\ tx' = [IdleTx EXCEPT !.at = "ret",
                                 !.command = CommandText(command),
                                 !.timeout = timeout]
         /\ result' = MkResult(FALSE, "")
         /\ UNCHANGED <<clock, modem, iolog>>
    ELSE /\ tx' = [IdleTx EXCEPT !.at = "loop",
                                 !.command = CommandText(command),
                                 !.timeout = timeout,
                                 !.resets = 1, !.writes = 1]
         /\ clock' = 0
         /\ modem' = SilentModem
         /\ iolog' = iolog \o <<[ev |-> "reset", data |-> ""],
                                [ev |-> "write", data |-> Wire(command)]>>
         /\ result' = NoResult

\* one iteration of the capture loop in which no input is waiting
LoopIdle ==
    /\ tx.at = "loop"
    /\ WithinTimeout(tx.start_time, tx.timeout)
    /\ IF QuiescentBreak(tx.final_response_seen, tx.last_data_time)
       THEN /\ tx' = [tx EXCEPT !.at = "build"]
            /\ UNCHANGED clock
       ELSE /\ clock' = clock + SleepOf(tx.waited_initial, tx.start_time)
            /\ UNCHANGED tx
    /\ UNCHANGED <<ser, link, sms, sub, session, op, pc, modem, iolog, result, query_result,
                   set_result, current_value, supplier_calls, slept, ret>>

\* one iteration of the capture loop in which a line is read
LoopRead ==
    /\ tx.at = "loop"
    /\ WithinTimeout(tx.start_time, tx.timeout)
    /\ modem.emitted < MaxReads
    /\ clock - modem.last <= MaxLatency
    /\ \E raw \in ReplyPool(tx.command) :
         LET line == Strip(raw)
             lines == IF line # "" THEN Append(tx.response_lines, line)
                      ELSE tx.response_lines
             last == IF line # "" THEN clock ELSE tx.last_data_time
             seen == tx.final_response_seen \/ (line # "" /\ IsFinal(line))
             read == [tx EXCEPT !.waited_initial = TRUE,
                                !.response_lines = lines,
                                !.last_data_time = last,
                                !.final_response_seen = seen,
                                !.reads = @ + 1]
         IN  IF QuiescentBreak(seen, last)
             THEN /\ tx' = [read EXCEPT !.at = "build"]
                  /\ UNCHANGED clock
             ELSE /\ tx' = read
                  /\ clock' = clock + SleepOf(TRUE, tx.start_time)
    /\ modem' = [last |-> clock, emitted |-> modem.emitted + 1]
    /\ UNCHANGED <<ser, link, sms, sub, session, op, pc, iolog, result, query_result, set_result,
                   current_value, supplier_calls, slept, ret>>

\* the while condition fails: the timeout has elapsed
LoopTimeout ==
    /\ tx.at = "loop"
    /\ ~WithinTimeout(tx.start_time, tx.timeout)
    /\ tx' = [tx EXCEPT !.at = "build"]
    /\ UNCHANGED <<ser, link, sms, sub, session, op, pc, clock, modem, iolog, result, query_result,
                   set_result, current_value, supplier_calls, slept, ret>>

\* the result is built and returned
BuildResult ==
    /\ tx.at = "build"
    /\ result' = MkResult(SuccessOf(tx.response_lines),
                          DataOf(tx.response_lines))
    /\ tx' = [tx EXCEPT !.at = "ret"]
    /\ UNCHANGED <<ser, link, sms, sub, session, op, pc, clock, modem, iolog, query_result,
                   set_result, current_value, supplier_calls, slept, ret>>

\* a read or a write on the link raises: the exception leaves
\* send_at_command, which has no handler, and its locals are gone
LoopFault ==
    /\ tx.at = "loop"
    /\ link.faults < MaxFaults
    /\ tx' = [IdleTx EXCEPT !.at = "raised"]
    /\ link' = [link EXCEPT !.faults = @ + 1]
    /\ UNCHANGED <<ser, sms, sub, session, op, pc, clock, modem, iolog, result, query_result,
                   set_result, current_value, supplier_calls, slept, ret>>

(***************************************************************************)
(* parse_response_value.                                                   *)
(***************************************************************************)
\* s.split(sep)[-1]: the text after the last occurrence of sep
RECURSIVE SplitLast(_, _)
SplitLast(s, sep) ==
    LET rest == SubSeq(s, FirstIndex(s, sep) + Len(sep), Len(s))
    IN  IF Contains(rest, sep) THEN SplitLast(rest, sep) ELSE rest

\* mutant: the last piece of the split is taken instead of the second
parse_response_value_last(data, prefix) ==
    IF ~Contains(data, prefix) THEN None
    ELSE IF prefix = "" THEN None
    ELSE LET value_str == Strip(SplitLast(data, prefix))
             word == FirstWord(value_str)
         IN  IF word = "" THEN None ELSE PyInt(word)

parse_response_value(data, prefix) ==
    IF ~Contains(data, prefix) THEN None
    ELSE IF prefix = "" THEN None
    ELSE LET value_str == Strip(SplitSecond(data, prefix))
             word == FirstWord(value_str)
         IN  IF word = "" THEN None ELSE PyInt(word)

(***************************************************************************)
(* The calls a caller makes on the driver.                                 *)
(***************************************************************************)
Constructed(baudrates) ==
    /\ ser \in {"none", "open", "closed"}
    /\ \E baudrate \in baudrates : link = LinkOf(baudrate, ser)
    /\ sub = NoSub
    /\ session = NoSession
    /\ op = NoOp
    /\ pc = "idle"
    /\ tx = IdleTx
    /\ clock = 0
    /\ modem = SilentModem
    /\ iolog = <<>>
    /\ result = NoResult
    /\ query_result = NoResult
    /\ set_result = NoResult
    /\ current_value = None
    /\ supplier_calls = 0
    /\ slept = 0
    /\ ret = None

Init == Constructed({DefaultBaudrate}) /\ sms = NoSms

\* send_at_command(command, timeout=...)
CallSend ==
    /\ pc = "idle"
    /\ \E command \in {"AT", "ATI"}, timeout \in {DefaultTimeout, ProbeTimeout} :
         /\ op' = [NoOp EXCEPT !.name = "send_at_command",
                               !.command = command, !.timeout = timeout]
         /\ StartTx(Some(command), timeout)
    /\ pc' = "send"
    /\ UNCHANGED <<ser, link, sms, sub, session, query_result, set_result, current_value,
                   supplier_calls, slept, ret>>

\* send_at_command returns to the caller that invoked it directly
SendReturn ==
    /\ pc = "send"
    /\ tx.at = "ret"
    /\ pc' = "done"
    /\ UNCHANGED <<ser, link, sms, sub, session, op, tx, clock, modem, iolog, result, query_result,
                   set_result, current_value, supplier_calls, slept, ret>>

\* the replies parse_response_value is called on
RECURSIVE Replies(_)
Replies(n) ==
    IF n = 0 THEN {""}
    ELSE LET shorter == Replies(n - 1)
         IN  shorter \cup
             {r \o p : r \in shorter,
                       p \in {"+CFUN:", "1", "0", "x", "-", "_", " ", "\n"}}

\* parse_response_value(data, prefix)
CallParse ==
    /\ pc = "idle"
    /\ \E data \in Replies(MaxPieces), prefix \in {"+CFUN:"} :
         /\ op' = [NoOp EXCEPT !.name = "parse_response_value",
                               !.data = data, !.prefix = prefix]
         /\ ret' = parse_response_value(data, prefix)
    /\ pc' = "done"
    /\ UNCHANGED <<ser, link, sms, sub, session, tx, clock, modem, iolog, result, query_result,
                   set_result, current_value, supplier_calls, slept>>

\* check_and_set_status(...), up to the query being written
CallCheckAndSetStatus ==
    /\ pc = "idle"
    /\ \E expected_value \in {0, 1} :
         op' = [NoOp EXCEPT !.name = "check_and_set_status",
                            !.query_cmd = "AT+CFUN?", !.prefix = "+CFUN:",
                            !.expected_value = expected_value,
                            !.set_cmd = IF expected_value = 1
                                        THEN "AT+CFUN=1" ELSE "AT+CFUN=0",
                            !.status_name = "Power"]
    /\ StartTx(Some("AT+CFUN?"), DefaultTimeout)
    /\ pc' = "query"
    /\ UNCHANGED <<ser, link, sms, sub, session, query_result, set_result, current_value,
                   supplier_calls, slept, ret>>

\* mutant: the query's failure is ignored
QueryFailedIgnored(r) == FALSE

\* not result['success']
QueryFailed(r) == ~r.success

\* mutant: the comparison is inverted
AlreadyCorrectInverted(value, expected_value) == value # Some(expected_value)

\* current_value == expected_value
AlreadyCorrect(value, expected_value) == value = Some(expected_value)

\* mutant: True is returned whatever the corrective command's result
ReturnOfSetAlways(r) == TRUE

\* what a reconciler returns once its corrective command has been sent
ReturnOfSet(r) == r.success

\* check_and_set_status, from the query's result to the corrective command
StatusAfterQuery ==
    /\ pc = "query"
    /\ op.name = "check_and_set_status"
    /\ tx.at = "ret"
    /\ query_result' = result
    /\ LET value == parse_response_value(result.data, op.prefix)
       IN  IF QueryFailed(result)
           THEN /\ ret' = Some(FALSE)
                /\ pc' = "done"
                /\ UNCHANGED <<tx, clock, modem, iolog, result, current_value>>
           ELSE /\ current_value' = value
                /\ IF value = None
                   THEN /\ ret' = Some(FALSE)
                        /\ pc' = "done"
                        /\ UNCHANGED <<tx, clock, modem, iolog, result>>
                   ELSE IF AlreadyCorrect(value, op.expected_value)
                   THEN /\ ret' = Some(TRUE)
                        /\ pc' = "done"
                        /\ UNCHANGED <<tx, clock, modem, iolog, result>>
                   ELSE /\ StartTx(Some(op.set_cmd), DefaultTimeout)
                        /\ pc' = "set"
                        /\ UNCHANGED ret
    /\ UNCHANGED <<ser, link, sms, sub, session, op, set_result, supplier_calls, slept>>

\* mutant: no reconciler sleeps after its corrective command
SettleOfNone(name, status_name) == 0

\* the sleep after a corrective command that succeeded
SettleOf(name, status_name) ==
    IF name = "check_and_set_status" /\ status_name = "Power" THEN PowerSettle
    ELSE IF name = "check_and_set_text_status" /\ status_name = "PIN"
    THEN PinSettle
    ELSE 0

\* either reconciler, from the corrective command's result to its return
AfterSet ==
    /\ pc = "set"
    /\ tx.at = "ret"
    /\ set_result' = result
    /\ ret' = Some(ReturnOfSet(result))
    /\ slept' = IF ReturnOfSet(result) THEN SettleOf(op.name, op.status_name) ELSE 0
    /\ pc' = "done"
    /\ UNCHANGED <<ser, link, sms, sub, session, op, tx, clock, modem, iolog, result, query_result,
                   current_value, supplier_calls>>

\* the ready_value a caller passes: the literal check_and_set_pin passes, and
\* a literal that a reply holds on a line of its own
ReadyValues == {"READY", "OK"}

\* check_and_set_text_status(...), up to the query being written
CallCheckAndSetTextStatus ==
    /\ pc = "idle"
    /\ \E ready_value \in ReadyValues :
         op' = [NoOp EXCEPT !.name = "check_and_set_text_status",
                            !.query_cmd = "AT+CPIN?", !.prefix = "+CPIN:",
                            !.ready_value = ready_value, !.status_name = "PIN"]
    /\ StartTx(Some("AT+CPIN?"), DefaultTimeout)
    /\ pc' = "query"
    /\ UNCHANGED <<ser, link, sms, sub, session, query_result, set_result, current_value,
                   supplier_calls, slept, ret>>

\* mutant: the ready literal is never found
IsReadyNever(ready_value, data) == FALSE

\* mutant: the data must be the ready value, not merely hold it
IsReadyExact(ready_value, data) == data = ready_value

\* ready_value in result['data']
IsReady(ready_value, data) == Contains(data, ready_value)

\* what set_cmd_func() may return: a command, or None
SupplierYields == {Some("AT+CPIN=1234"), None}

\* mutant: a missing command is not noticed
NoCommandIgnored(set_cmd) == FALSE

\* set_cmd is None
NoCommand(set_cmd) == set_cmd = None

\* check_and_set_text_status, from the query's result to the corrective
\* command
TextAfterQuery ==
    /\ pc = "query"
    /\ op.name = "check_and_set_text_status"
    /\ tx.at = "ret"
    /\ query_result' = result
    /\ IF QueryFailed(result)
       THEN /\ ret' = Some(FALSE)
            /\ pc' = "done"
            /\ UNCHANGED <<op, tx, clock, modem, iolog, result, supplier_calls>>
       ELSE IF IsReady(op.ready_value, result.data)
       THEN /\ ret' = Some(TRUE)
            /\ pc' = "done"
            /\ UNCHANGED <<op, tx, clock, modem, iolog, result, supplier_calls>>
       ELSE /\ supplier_calls' = supplier_calls + 1
            /\ \E set_cmd \in SupplierYields :
                 /\ op' = [op EXCEPT
                             !.set_cmd = CommandText(set_cmd),
                             !.supplied = IF set_cmd = None THEN "none"
                                          ELSE "command"]
                 /\ IF NoCommand(set_cmd)
                    THEN /\ ret' = Some(FALSE)
                         /\ pc' = "done"
                         /\ UNCHANGED <<tx, clock, modem, iolog, result>>
                    ELSE /\ StartTx(set_cmd, DefaultTimeout)
                         /\ pc' = "set"
                         /\ UNCHANGED ret
    /\ UNCHANGED <<ser, link, sms, sub, session, set_result, current_value, slept>>

(***************************************************************************)
(* detect_baudrate.                                                        *)
(***************************************************************************)
\* mutant: 9600 is probed first
common_baudrates_swapped == <<9600, 115200, 19200, 38400, 57600>>

common_baudrates == <<115200, 9600, 19200, 38400, 57600>>

\* detect_baudrate()
CallDetect ==
    /\ pc = "idle"
    /\ op' = [NoOp EXCEPT !.name = "detect_baudrate", !.candidate = 1]
    /\ pc' = "probe"
    /\ UNCHANGED <<ser, link, sms, sub, session, tx, clock, modem, iolog, result, query_result,
                   set_result, current_value, supplier_calls, slept, ret>>

\* the for loop goes on to the next baudrate, or ends and False is returned
NextCandidate ==
    IF op.candidate < Len(common_baudrates)
    THEN /\ op' = [op EXCEPT !.candidate = @ + 1]
         /\ pc' = "probe"
         /\ UNCHANGED ret
    ELSE /\ pc' = "done"
         /\ ret' = Some(FALSE)
         /\ UNCHANGED op

\* serial.Serial(...) returns a handle, or raises when errors are left
OpenOutcomes == {TRUE} \cup (IF link.faults < MaxFaults THEN {FALSE} ELSE {})

\* the handle is closed if it is open
CloseIfOpen(s) == IF s = "open" THEN "closed" ELSE s

\* the handles left open on the port when self.ser goes from s to t
HandlesAfter(handles, s, t) ==
    IF s = "open" /\ t # "open" THEN handles - 1 ELSE handles

\* one candidate: self.baudrate is set, an open handle is closed and the
\* port is opened with the probe read timeout; a failed open is caught
ProbeOpen ==
    /\ pc = "probe"
    /\ LET baudrate == common_baudrates[op.candidate]
           closed == CloseIfOpen(ser)
           handles == HandlesAfter(link.handles, ser, closed)
       IN  \E ok \in OpenOutcomes :
             LET call == [baudrate |-> baudrate, timeout |-> ProbeReadTimeout,
                          ok |-> ok]
             IN  IF ok
                 THEN /\ ser' = "open"
                      /\ link' = [link EXCEPT !.baudrate = baudrate,
                                              !.ser_baudrate = baudrate,
                                              !.ser_timeout = ProbeReadTimeout,
                                              !.handles = handles + 1,
                                              !.opens = Append(@, call)]
                      /\ pc' = "opened"
                      /\ UNCHANGED <<op, ret>>
                 ELSE /\ ser' = CloseIfOpen(closed)
                      /\ link' = [link EXCEPT !.baudrate = baudrate,
                                              !.handles = handles,
                                              !.opens = Append(@, call),
                                              !.faults = @ + 1]
                      /\ NextCandidate
    /\ UNCHANGED <<sms, sub, session, tx, clock, modem, iolog, result, query_result,
                   set_result, current_value, supplier_calls, slept>>

\* the liveness command is sent on the handle just opened
ProbeSend ==
    /\ pc = "opened"
    /\ StartTx(Some("AT"), ProbeTimeout)
    /\ pc' = "probing"
    /\ UNCHANGED <<ser, link, sms, sub, session, op, query_result, set_result, current_value,
                   supplier_calls, slept, ret>>

\* mutant: the probe read timeout is left on the handle
RestoredTimeoutProbe(timeout) == ProbeReadTimeout

\* self.ser.timeout = self.timeout
RestoredTimeout(timeout) == timeout

\* mutant: the handle of a failed probe is left as it is
AfterFailedProbeLeft(s) == s

\* self.ser.close() after a probe that did not succeed
AfterFailedProbe(s) == "closed"

\* the liveness transaction has returned: success ends the search, anything
\* else closes the handle and goes on
ProbeResult ==
    /\ pc = "probing"
    /\ tx.at = "ret"
    /\ IF result.success
       THEN /\ link' = [link EXCEPT !.ser_timeout = RestoredTimeout(link.timeout)]
            /\ ret' = Some(TRUE)
            /\ pc' = "done"
            /\ UNCHANGED <<ser, op>>
       ELSE /\ ser' = AfterFailedProbe(ser)
            /\ link' = [link EXCEPT
                          !.handles = HandlesAfter(@, ser, AfterFailedProbe(ser))]
            /\ NextCandidate
    /\ UNCHANGED <<sms, sub, session, tx, clock, modem, iolog, result, query_result,
                   set_result, current_value, supplier_calls, slept>>

\* mutant: the handler leaves the handle as it is
AfterFaultLeft(s) == s

\* except Exception: the handle is closed if it is open
AfterFault(s) == CloseIfOpen(s)

\* the liveness transaction raised: the handler closes the handle and the
\* loop goes on
ProbeFault ==
    /\ pc = "probing"
    /\ tx.at = "raised"
    /\ ser' = AfterFault(ser)
    /\ link' = [link EXCEPT !.handles = HandlesAfter(@, ser, AfterFault(ser))]
    /\ NextCandidate
    /\ UNCHANGED <<sms, sub, session, tx, clock, modem, iolog, result, query_result,
                   set_result, current_value, supplier_calls, slept>>

\* send_at_command and the reconcilers have no handler either: the
\* exception reaches the caller
Propagate ==
    /\ pc \in {"send", "query", "set"}
    /\ tx.at = "raised"
    /\ pc' = "raised"
    /\ UNCHANGED <<ser, link, sms, sub, session, op, tx, clock, modem, iolog, result, query_result,
                   set_result, current_value, supplier_calls, slept, ret>>

\* the caller is ready for its next call on the same driver
NextCall ==
    /\ pc \in {"done", "raised"}
    /\ pc' = "idle"
    /\ op' = NoOp
    /\ tx' = IdleTx
    /\ clock' = 0
    /\ modem' = SilentModem
    /\ iolog' = <<>>
    /\ result' = NoResult
    /\ query_result' = NoResult
    /\ set_result' = NoResult
    /\ current_value' = None
    /\ supplier_calls' = 0
    /\ slept' = 0
    /\ ret' = None
    /\ link' = [link EXCEPT !.opens = <<>>, !.faults = 0]
    /\ UNCHANGED <<ser, sms, sub, session>>

Next ==
    \/ CallSend
    \/ CallParse
    \/ CallCheckAndSetStatus
    \/ CallCheckAndSetTextStatus
    \/ LoopIdle
    \/ LoopRead
    \/ LoopTimeout
    \/ BuildResult
    \/ SendReturn
    \/ StatusAfterQuery
    \/ TextAfterQuery
    \/ AfterSet
    \/ LoopFault
    \/ Propagate
    \/ NextCall

Spec == Init /\ [][Next]_vars

\* baudrates a driver is constructed with
ConstructorBaudrates == {DefaultBaudrate, common_baudrates[2]}

InitDetect == Constructed(ConstructorBaudrates) /\ sms = NoSms

\* one call of detect_baudrate on a driver in any state it can be in
NextDetect ==
    \/ CallDetect
    \/ ProbeOpen
    \/ ProbeSend
    \/ LoopIdle
    \/ LoopRead
    \/ LoopTimeout
    \/ LoopFault
    \/ BuildResult
    \/ ProbeResult
    \/ ProbeFault

SpecDetect == InitDetect /\ [][NextDetect]_vars

(***************************************************************************)
(* parse_sms_messages.                                                     *)
(***************************************************************************)
\* the place of the first newline of data at or after the k-th character,
\* 0 if there is none
RECURSIVE NewlineFrom(_, _)
NewlineFrom(data, k) ==
    IF k > Len(data) THEN 0
    ELSE IF SubSeq(data, k, k) = "\n" THEN k
    ELSE NewlineFrom(data, k + 1)

\* data.split('\n')
RECURSIVE SplitLines(_)
SplitLines(data) ==
    LET i == NewlineFrom(data, 1)
    IN  IF i = 0 THEN <<data>>
        ELSE <<SubSeq(data, 1, i - 1)>> \o
             SplitLines(SubSeq(data, i + 1, Len(data)))

\* line.startswith(prefix)
StartsWith(line, prefix) ==
    Len(line) >= Len(prefix) /\ SubSeq(line, 1, Len(prefix)) = prefix

\* s.strip('"')
RECURSIVE StripQuotes(_)
StripQuotes(s) ==
    IF Len(s) > 0 /\ SubSeq(s, 1, 1) = "\""
    THEN StripQuotes(SubSeq(s, 2, Len(s)))
    ELSE IF Len(s) > 0 /\ SubSeq(s, Len(s), Len(s)) = "\""
    THEN StripQuotes(SubSeq(s, 1, Len(s) - 1))
    ELSE s

\* mutant: the quotes stay on the field
UnquotedNot(part) == Strip(part)

\* parts[k].strip().strip('"')
Unquoted(part) == StripQuotes(Strip(part))

\* mutant: every comma separates
IsSeparatorAnywhere(char, in_quotes) == char = ","

\* char == ',' and not in_quotes
IsSeparator(char, in_quotes) == char = "," /\ ~in_quotes

\* mutant: an empty part is kept as an empty field
WithPartKept(parts, current_part) == Append(parts, Strip(current_part))

\* if current_part: parts.append(current_part.strip())
WithPart(parts, current_part) ==
    IF current_part # "" THEN Append(parts, Strip(current_part)) ELSE parts

\* the for loop over the header's characters, from the k-th on
RECURSIVE ScanHeader(_, _, _, _, _)
ScanHeader(header, k, parts, current_part, in_quotes) ==
    IF k > Len(header) THEN WithPart(parts, current_part)
    ELSE LET char == SubSeq(header, k, k)
         IN  IF char = "\""
             THEN ScanHeader(header, k + 1, parts, current_part \o char,
                             ~in_quotes)
             ELSE IF IsSeparator(char, in_quotes)
             THEN ScanHeader(header, k + 1, WithPart(parts, current_part), "",
                             in_quotes)
             ELSE ScanHeader(header, k + 1, parts, current_part \o char,
                             in_quotes)

HeaderParts(header) == ScanHeader(header, 1, <<>>, "", FALSE)

HexDigits == {"0", "1", "2", "3", "4", "5", "6", "7", "8", "9",
              "A", "B", "C", "D", "E", "F", "a", "b", "c", "d", "e", "f"}

\* message_content and len(message_content) % 2 == 0 and all(c in '01..ef')
LooksHex(message_content) ==
    /\ message_content # ""
    /\ Len(message_content) % 2 = 0
    /\ \A i \in 1..Len(message_content) :
         SubSeq(message_content, i, i) \in HexDigits

\* bytes.fromhex reads both cases of a hexadecimal digit alike
UpperDigit(c) ==
    CASE c = "a" -> "A" [] c = "b" -> "B" [] c = "c" -> "C"
      [] c = "d" -> "D" [] c = "e" -> "E" [] c = "f" -> "F"
      [] OTHER -> c

RECURSIVE UpperHex(_)
UpperHex(s) ==
    IF s = "" THEN ""
    ELSE UpperDigit(SubSeq(s, 1, 1)) \o UpperHex(SubSeq(s, 2, Len(s)))

\* a 16-bit code unit, as four upper-case digits, that is half a surrogate
\* pair
IsHighSurrogate(unit) ==
    SubSeq(unit, 1, 1) = "D" /\ SubSeq(unit, 2, 2) \in {"8", "9", "A", "B"}
IsLowSurrogate(unit) ==
    SubSeq(unit, 1, 1) = "D" /\ SubSeq(unit, 2, 2) \in {"C", "D", "E", "F"}

\* the character of a code unit: a letter for the units the inputs use,
\* the code point's name otherwise
CodeUnitText(unit) ==
    CASE unit = "0041" -> "A"
      [] unit = "0048" -> "H"
      [] unit = "0069" -> "i"
      [] OTHER -> "U+" \o unit

\* the text of a run of code units: None for UnicodeDecodeError
RECURSIVE DecodeUnits(_)
DecodeUnits(hex) ==
    IF hex = "" THEN Some("")
    ELSE LET unit == SubSeq(hex, 1, 4)
             rest == SubSeq(hex, 5, Len(hex))
         IN  IF IsLowSurrogate(unit) THEN None
             ELSE IF IsHighSurrogate(unit)
             THEN IF Len(rest) >= 4 /\ IsLowSurrogate(SubSeq(rest, 1, 4))
                  THEN LET tail == DecodeUnits(SubSeq(rest, 5, Len(rest)))
                       IN  IF tail = None THEN None
                           ELSE Some("U+" \o unit \o SubSeq(rest, 1, 4)
                                     \o tail[1])
                  ELSE None
             ELSE LET tail == DecodeUnits(rest)
                  IN  IF tail = None THEN None
                      ELSE Some(CodeUnitText(unit) \o tail[1])

\* bytes.fromhex(message_content).decode('utf-16-be'), for content that
\* looks hex: an odd number of bytes is truncated data
DecodeUtf16BE(message_content) ==
    IF Len(message_content) % 4 # 0 THEN None
    ELSE DecodeUnits(UpperHex(message_content))

\* what is printed after "Content: "
Presented(message_content) ==
    IF LooksHex(message_content)
    THEN LET decoded_content == DecodeUtf16BE(message_content)
         IN  IF decoded_content = None THEN message_content
             ELSE decoded_content[1]
    ELSE message_content

\* what the decode did: it was not tried, it gave a text, or it raised
DecodeAttempt(message_content) ==
    IF ~LooksHex(message_content) THEN "none"
    ELSE IF DecodeUtf16BE(message_content) = None THEN "failed"
    ELSE "decoded"

\* mutant: the handler around the decode catches nothing
HandledNever(exception) == FALSE

\* except (ValueError, UnicodeDecodeError)
Handled(exception) == exception \in {"ValueError", "UnicodeDecodeError"}

\* mutant: the record keeps what was printed
StoredContentDecoded(message_content) == Presented(message_content)

\* 'content': message_content
StoredContent(message_content) == message_content

\* mutant: the line after a malformed header is skipped as well
AfterMalformedTwo(i) == i + 2

\* i += 1, for a header of fewer than 4 parts
AfterMalformed(i) == i + 1

\* mutant: the line below a header is looked at again
AfterRecordOne(i) == i + 1

\* i += 2, once a record has been appended
AfterRecord(i) == i + 2

\* the while loop, from the i-th line on (lines are counted from 1)
RECURSIVE ParseFrom(_, _, _)
ParseFrom(lines, i, out) ==
    IF i > Len(lines) THEN out
    ELSE LET line == Strip(lines[i])
         IN  IF StartsWith(line, "+CMGL:")
             THEN LET header == Strip(SubSeq(line, Len("+CMGL:") + 1, Len(line)))
                      parts == HeaderParts(header)
                      message_content == IF i + 1 <= Len(lines)
                                         THEN Strip(lines[i + 1]) ELSE ""
                      message == [index |-> Strip(parts[1]),
                                  status |-> Unquoted(parts[2]),
                                  sender |-> Unquoted(parts[3]),
                                  timestamp |-> Unquoted(parts[4]),
                                  content |-> StoredContent(message_content)]
                      attempt == DecodeAttempt(message_content)
                  IN  IF Len(parts) < 4
                      THEN ParseFrom(lines, AfterMalformed(i), out)
                      ELSE IF attempt = "failed" /\ ~Handled("UnicodeDecodeError")
                      THEN \* except Exception: the record stays, i += 1
                           ParseFrom(lines, i + 1,
                             [messages |-> Append(out.messages, message),
                              printed |-> out.printed,
                              attempts |-> Append(out.attempts, attempt)])
                      ELSE ParseFrom(lines, AfterRecord(i),
                             [messages |-> Append(out.messages, message),
                              printed |-> Append(out.printed,
                                                 Presented(message_content)),
                              attempts |-> Append(out.attempts, attempt)])
             ELSE ParseFrom(lines, i + 1, out)

\* mutant: the list of the previous call is carried over
InitialMessagesCarried(previous) == previous

\* messages = []
InitialMessages(previous) == <<>>

\* parse_sms_messages(data); previous is what the reader's previous call
\* returned
parse_sms_messages(data, previous) ==
    ParseFrom(SplitLines(data), 1,
              [messages |-> InitialMessages(previous), printed |-> <<>>,
               attempts |-> <<>>])

\* the header line of a listing entry with the given fields
HeaderLine(fields) ==
    [kind |-> "header", fields |-> fields,
     text |-> "+CMGL: " \o Join(fields, ",")]

\* a line that is no header
ContentLine(text) == [kind |-> "content", fields |-> <<>>, text |-> text]

\* the lines a text handed to parse_sms_messages is made of
LinePool ==
    {HeaderLine(<<"0", "\"REC UNREAD\"", "\"+12\"", "\"23/10/15,10:20\"">>),
     HeaderLine(<<" 1 ", "\"REC READ\"", " \"+9\"", "\"t\"", "x">>),
     HeaderLine(<<"2", "\"REC READ\"", "\"+9\"">>),
     HeaderLine(<<"3", "", "\"S\"", "\"+9\"", "\"t\"">>),
     ContentLine("  Hi there \r"),
     ContentLine("00480069"),
     ContentLine("")}

\* the texts of at most n lines
TextsUpTo(n) == UNION {[1..k -> LinePool] : k \in 0..n}

\* the text of the given lines, not parsed yet
Handed(lines) ==
    [NoSms EXCEPT !.lines = lines,
                  !.data = Join([k \in DOMAIN lines |-> lines[k].text], "\n")]

\* a reader that has been handed a text and has not parsed it yet
InitParse ==
    /\ Constructed({DefaultBaudrate})
    /\ ser = "none"
    /\ \E lines \in TextsUpTo(MaxLines) : sms = Handed(lines)

\* parse_sms_messages(data), once more on the same text
ParseSms ==
    /\ Len(sms.returns) < MaxParses
    /\ LET previous == IF sms.returns = <<>> THEN <<>>
                       ELSE sms.returns[Len(sms.returns)]
           out == parse_sms_messages(sms.data, previous)
       IN  sms' = [sms EXCEPT !.returns = Append(@, out.messages),
                              !.printed = Append(@, out.printed),
                              !.attempts = Append(@, out.attempts)]
    /\ UNCHANGED <<ser, link, sub, session, op, pc, tx, clock, modem, iolog,
                   result, query_result, set_result, current_value,
                   supplier_calls, slept, ret>>

NextParse == ParseSms

SpecParse == InitParse /\ [][NextParse]_vars

\* the pieces of a content line: code units and halves of them, a digit, a
\* letter that is no digit, a blank
ContentPieces == {"00", "48", "D8", "4", "G", " "}

\* the content lines of at most n pieces
RECURSIVE ContentsUpTo(_)
ContentsUpTo(n) ==
    IF n = 0 THEN {""}
    ELSE ContentsUpTo(n - 1) \cup
         {c \o piece : c \in ContentsUpTo(n - 1), piece \in ContentPieces}

\* a reader that has been handed one listing entry
InitDecode ==
    /\ Constructed({DefaultBaudrate})
    /\ ser = "none"
    /\ \E content \in ContentsUpTo(MaxUnits) :
         sms = Handed(<<HeaderLine(<<"0", "\"REC UNREAD\"", "\"+12\"",
                                    "\"23/10/15,10:20\"">>),
                       ContentLine(content)>>)

SpecDecode == InitDecode /\ [][NextParse]_vars

(***************************************************************************)
(* send_sms_message and send_sms (src/src/send_sms.py).  The two loops of  *)
(* send_sms_message poll the link; the time they spend polling is the      *)
(* modem's silence: a line arrives before the deadline, or the loop polls  *)
(* up to it.  sub.at says where send_sms_message stands.                   *)
(***************************************************************************)
\* the timeouts of the two loops and the sleeps, in ticks of 10 ms
PromptTimeout == 500
ConfirmTimeout == 1000
ConfirmSettle == 20
MessageGap == 100

\* the byte that ends the message body
CtrlZ == "<0x1A>"

\* the recipient and the messages send_sms is called with
PhoneNumber == "+48123"
MessageTexts == <<"one", "two", "three", "four">>
MessageLists == {SubSeq(MessageTexts, 1, n) : n \in 0..MaxMessages}

\* f'AT+CMGS="{phone_number}"'
CmgsCommand(phone_number) == "AT+CMGS=\"" \o phone_number \o "\""

\* what the modem may emit after the submission command, and after the body
\* (the first is the echo of what was written)
PromptPool == {CmgsCommand(PhoneNumber) \o "\r\n", "\r\n", "> ", "ERROR\r\n"}
ConfirmPool(message) ==
    {message \o "\r\n", "\r\n", "+CMGS: 5\r\n", "OK\r\n", "ERROR\r\n",
     "+CMS ERROR: 500\r\n"}

\* send_sms(phone_number, messages), up to the for loop
CallSendSms ==
    /\ pc = "idle"
    /\ \E messages \in MessageLists :
         sub' = [NoSub EXCEPT !.messages = messages, !.at = "for"]
    /\ op' = [NoOp EXCEPT !.name = "send_sms"]
    /\ pc' = "calling"
    /\ UNCHANGED <<ser, link, sms, session, tx, clock, modem, iolog, result,
                   query_result, set_result, current_value, supplier_calls,
                   slept, ret>>

\* mutant: true as soon as one message went through
AllSentAny(success_count, messages) == success_count > 0

\* success_count == len(messages)
AllSent(success_count, messages) == success_count = Len(messages)

\* the for loop: the next message is handed to send_sms_message, which sends
\* AT+CMGF=1; after the last message send_sms returns
SmsNext ==
    /\ pc = "calling"
    /\ sub.at = "for"
    /\ IF sub.i < Len(sub.messages)
       THEN /\ sub' = [sub EXCEPT !.i = @ + 1, !.at = "cmgf",
                                  !.start = Len(iolog),
                                  !.response_lines = <<>>,
                                  !.prompt_line = "",
                                  !.reads = 0,
                                  !.ended = "",
                                  !.result = NoResult,
                                  !.attempted = Append(@, sub.messages[sub.i + 1])]
            /\ StartTx(Some("AT+CMGF=1"), DefaultTimeout)
            /\ UNCHANGED <<pc, ret>>
       ELSE /\ sub' = [sub EXCEPT !.at = "idle"]
            /\ ret' = Some(AllSent(sub.success_count, sub.messages))
            /\ pc' = "done"
            /\ UNCHANGED <<tx, clock, modem, iolog, result>>
    /\ UNCHANGED <<ser, link, sms, session, op, query_result, set_result,
                   current_value, supplier_calls, slept>>

\* mutant: a failed AT+CMGF=1 is not noticed
CmgfFailedIgnored(cmgf_result) == FALSE

\* not cmgf_result['success']
CmgfFailed(cmgf_result) == ~cmgf_result.success

\* AT+CMGF=1 has returned and its locals are gone: on failure
\* send_sms_message returns, otherwise the input buffer is reset and the
\* submission command written
SmsAfterCmgf ==
    /\ sub.at = "cmgf"
    /\ tx.at = "ret"
    /\ tx' = IdleTx
    /\ IF CmgfFailed(result)
       THEN /\ sub' = [sub EXCEPT !.at = "return", !.ended = "cmgf",
                                  !.result = MkResult(FALSE, "")]
            /\ UNCHANGED <<clock, modem, iolog>>
       ELSE /\ sub' = [sub EXCEPT !.at = "prompt"]
            /\ iolog' = iolog \o
                 <<[ev |-> "reset", data |-> ""],
                   [ev |-> "write", data |-> CmgsCommand(PhoneNumber) \o "\r\n"]>>
            /\ clock' = 0
            /\ modem' = SilentModem
    /\ UNCHANGED <<ser, link, sms, session, op, pc, result, query_result,
                   set_result, current_value, supplier_calls, slept, ret>>

\* mutant: a line terminator is appended to the body
BodyBytesTerminated(message) == message \o "\r\n"

\* message.encode(): the body as it is written
BodyBytes(message) == message

\* mutant: any line is taken for the prompt
PromptSeenAlways(line) == TRUE

\* '>' in line
PromptSeen(line) == Contains(line, ">")

\* the prompt loop reads a line; on the prompt the body and the end byte are
\* written and the confirmation loop starts
PromptRead ==
    /\ sub.at = "prompt"
    /\ WithinTimeout(0, PromptTimeout)
    /\ sub.reads < MaxReads
    /\ \E raw \in PromptPool :
         LET line == Strip(raw)
             lines == Append(sub.response_lines, line)
         IN  IF PromptSeen(line)
             THEN /\ sub' = [sub EXCEPT !.at = "confirm",
                                        !.prompt_line = line,
                                        !.response_lines = <<>>,
                                        !.reads = 0]
                  /\ iolog' = iolog \o
                       <<[ev |-> "write", data |-> BodyBytes(sub.messages[sub.i])],
                         [ev |-> "write", data |-> CtrlZ]>>
                  /\ clock' = 0
             ELSE /\ sub' = [sub EXCEPT !.response_lines = lines,
                                        !.reads = @ + 1]
                  /\ UNCHANGED <<iolog, clock>>
    /\ UNCHANGED <<ser, link, sms, session, op, pc, tx, modem, result,
                   query_result, set_result, current_value, supplier_calls,
                   slept, ret>>

\* nothing is waiting: the prompt loop polls up to its deadline
PromptPoll ==
    /\ sub.at = "prompt"
    /\ WithinTimeout(0, PromptTimeout)
    /\ clock' = PromptTimeout
    /\ UNCHANGED <<ser, link, sms, sub, session, op, pc, tx, modem, iolog,
                   result, query_result, set_result, current_value,
                   supplier_calls, slept, ret>>

\* the data of the result returned when no prompt was received
PromptTimeoutData(response_lines) == ""

\* the prompt loop ends without a prompt: send_sms_message returns
PromptExpired ==
    /\ sub.at = "prompt"
    /\ ~WithinTimeout(0, PromptTimeout)
    /\ sub' = [sub EXCEPT !.at = "return", !.ended = "prompt_timeout",
                          !.result = MkResult(FALSE,
                                        PromptTimeoutData(sub.response_lines))]
    /\ UNCHANGED <<ser, link, sms, session, op, pc, tx, clock, modem, iolog,
                   result, query_result, set_result, current_value,
                   supplier_calls, slept, ret>>

\* 'OK' in line or 'ERROR' in line or '+CMGS:' in line
IsFinalSms(line) ==
    Contains(line, "OK") \/ Contains(line, "ERROR") \/ Contains(line, "+CMGS:")

\* mutant: only OK counts as success
SubmittedOkOnly(response_data) == Contains(response_data, "OK")

\* 'OK' in response_data or '+CMGS:' in response_data
Submitted(response_data) ==
    Contains(response_data, "OK") \/ Contains(response_data, "+CMGS:")

\* the result send_sms_message builds from the confirmation lines
SubmissionResult(response_lines) ==
    LET response_data == Join(response_lines, "\n")
    IN  MkResult(Submitted(response_data), response_data)

\* the confirmation loop reads a line; a final line ends the loop and the
\* result is returned
ConfirmRead ==
    /\ sub.at = "confirm"
    /\ WithinTimeout(0, ConfirmTimeout)
    /\ sub.reads < MaxReads
    /\ \E raw \in ConfirmPool(sub.messages[sub.i]) :
         LET line == Strip(raw)
             lines == IF line # "" THEN Append(sub.response_lines, line)
                      ELSE sub.response_lines
         IN  IF line # "" /\ IsFinalSms(line)
             THEN /\ sub' = [sub EXCEPT !.at = "return", !.ended = "final",
                                        !.response_lines = lines,
                                        !.reads = @ + 1,
                                        !.result = SubmissionResult(lines)]
                  /\ clock' = IF Contains(line, "OK") \/ Contains(line, "+CMGS:")
                              THEN clock + ConfirmSettle ELSE clock
             ELSE /\ sub' = [sub EXCEPT !.response_lines = lines,
                                        !.reads = @ + 1]
                  /\ clock' = clock + PollSleep
    /\ UNCHANGED <<ser, link, sms, session, op, pc, tx, modem, iolog, result,
                   query_result, set_result, current_value, supplier_calls,
                   slept, ret>>

\* nothing is waiting: the confirmation loop polls up to its deadline
ConfirmPoll ==
    /\ sub.at = "confirm"
    /\ WithinTimeout(0, ConfirmTimeout)
    /\ clock' = ConfirmTimeout
    /\ UNCHANGED <<ser, link, sms, sub, session, op, pc, tx, modem, iolog,
                   result, query_result, set_result, current_value,
                   supplier_calls, slept, ret>>

\* the confirmation loop ends without a final line: the result is built
\* from what was captured
ConfirmExpired ==
    /\ sub.at = "confirm"
    /\ ~WithinTimeout(0, ConfirmTimeout)
    /\ sub' = [sub EXCEPT !.at = "return", !.ended = "confirm_timeout",
                          !.result = SubmissionResult(sub.response_lines)]
    /\ UNCHANGED <<ser, link, sms, session, op, pc, tx, clock, modem, iolog,
                   result, query_result, set_result, current_value,
                   supplier_calls, slept, ret>>

\* a reset, a write or a read of the interactive part raises:
\* send_sms_message has no handler
SmsFault ==
    /\ sub.at \in {"prompt", "confirm"}
    /\ link.faults < MaxFaults
    /\ sub' = [sub EXCEPT !.at = "raised", !.ended = "raised"]
    /\ link' = [link EXCEPT !.faults = @ + 1]
    /\ UNCHANGED <<ser, sms, session, op, pc, tx, clock, modem, iolog, result,
                   query_result, set_result, current_value, supplier_calls,
                   slept, ret>>

\* send_sms_message has returned: the success is counted and, unless the
\* message was the last, send_sms sleeps
SmsCounted ==
    /\ sub.at = "return"
    /\ sub' = [sub EXCEPT !.at = "for",
                          !.success_count = IF sub.result.success
                                            THEN @ + 1 ELSE @,
                          !.results = Append(@, sub.result.success)]
    /\ slept' = IF sub.i < Len(sub.messages) THEN slept + MessageGap ELSE slept
    /\ UNCHANGED <<ser, link, sms, session, op, pc, tx, clock, modem, iolog,
                   result, query_result, set_result, current_value,
                   supplier_calls, ret>>

\* except Exception in send_sms: whatever a submission raised, False is
\* returned
SmsCaught ==
    /\ pc = "calling"
    /\ \/ sub.at = "raised"
       \/ sub.at = "cmgf" /\ tx.at = "raised"
    /\ sub' = [sub EXCEPT !.at = "idle", !.ended = "raised"]
    /\ ret' = Some(FALSE)
    /\ pc' = "done"
    /\ UNCHANGED <<ser, link, sms, session, op, tx, clock, modem, iolog, result,
                   query_result, set_result, current_value, supplier_calls,
                   slept>>

\* a driver whose link is in any state it can be in; send_sms is called once
InitSms == Constructed({DefaultBaudrate}) /\ sms = NoSms

NextSms ==
    \/ CallSendSms
    \/ SmsNext
    \/ LoopIdle
    \/ LoopRead
    \/ LoopTimeout
    \/ LoopFault
    \/ BuildResult
    \/ SmsAfterCmgf
    \/ PromptRead
    \/ PromptPoll
    \/ PromptExpired
    \/ ConfirmRead
    \/ ConfirmPoll
    \/ ConfirmExpired
    \/ SmsFault
    \/ SmsCounted
    \/ SmsCaught

SpecSms == InitSms /\ [][NextSms]_vars

(***************************************************************************)
(* The connection sessions: setup_connection (src/src/sim800c.py),         *)
(* initialize (src/src/init_sim800c.py) and read_and_connect               *)
(* (src/src/read_sms.py).  session.at says where the session stands; the   *)
(* transactions are the actions above; detect_baudrate and the operations  *)
(* called once the link answers are one step each, with any outcome they   *)
(* can have.                                                               *)
(* session.calls lists the operations the session has called with the      *)
(* outcome of each: "true", "false" or "raised".                           *)
(***************************************************************************)
\* time.sleep(1) before the first command
StartupWait == 100

Flows == {"setup_connection", "initialize", "read_and_connect"}

\* the operations a session calls once the link answers, in order
StepsOf(flow) ==
    CASE flow = "initialize" ->
           <<"verify_module", "check_and_enable_power", "check_and_set_pin",
             "check_and_set_sms_mode">>
      [] flow = "read_and_connect" -> <<"list_all_sms">>
      [] OTHER -> <<>>

\* what an operation that returned a bool is logged with
OutcomeOf(value) == IF value THEN "true" ELSE "false"

Called(name, outcome) == [name |-> name, outcome |-> outcome]

\* the locals of the operation a session called are gone once it is over
StepOver ==
    /\ tx' = IdleTx
    /\ clock' = 0
    /\ modem' = SilentModem
    /\ iolog' = <<>>
    /\ result' = NoResult
    /\ query_result' = NoResult
    /\ set_result' = NoResult
    /\ current_value' = None
    /\ supplier_calls' = 0
    /\ ret' = None

\* a session is called on the driver
CallSession ==
    /\ pc = "idle"
    /\ session.at = "idle"
    /\ \E flow \in Flows :
         /\ session' = [NoSession EXCEPT !.flow = flow, !.at = "connect"]
         /\ op' = [NoOp EXCEPT !.name = flow]
    /\ pc' = "calling"
    /\ UNCHANGED <<ser, link, sms, sub, tx, clock, modem, iolog, result,
                   query_result, set_result, current_value, supplier_calls,
                   slept, ret>>

\* setup_connection opens the port only if no handle is open; connect()
\* always does
OpensPort(flow, s) == flow # "setup_connection" \/ s # "open"

\* the handles open on the port once self.ser is bound to a handle just
\* opened: nothing closes the handle it was bound to, which stays open
\* unless the runtime finalizes it when its last reference goes
Rebound(handles, s) ==
    IF s = "open" THEN {handles + 1, handles} ELSE {handles + 1}

\* the port is opened: a failure makes the session return False; otherwise
\* the session sleeps before its first command
SessionConnect ==
    /\ session.at = "connect"
    /\ IF OpensPort(session.flow, ser)
       THEN \E ok \in OpenOutcomes, handles \in Rebound(link.handles, ser) :
              LET call == [baudrate |-> link.baudrate, timeout |-> link.timeout,
                           ok |-> ok]
                  called == Append(session.calls, Called("connect", OutcomeOf(ok)))
              IN  IF ok
                  THEN /\ ser' = "open"
                       /\ link' = [link EXCEPT !.ser_baudrate = link.baudrate,
                                               !.ser_timeout = link.timeout,
                                               !.handles = handles,
                                               !.opens = Append(@, call)]
                       /\ session' = [session EXCEPT !.at = "echo_send",
                                                     !.calls = called]
                       /\ slept' = StartupWait
                       /\ UNCHANGED <<pc, ret>>
                  ELSE /\ link' = [link EXCEPT !.opens = Append(@, call),
                                               !.faults = @ + 1]
                       /\ session' = [session EXCEPT !.at = "returned",
                                                     !.calls = called]
                       /\ ret' = Some(FALSE)
                       /\ pc' = "done"
                       /\ UNCHANGED <<ser, slept>>
       ELSE /\ session' = [session EXCEPT !.at = "echo_send"]
            /\ slept' = StartupWait
            /\ UNCHANGED <<ser, link, pc, ret>>
    /\ UNCHANGED <<sms, sub, op, tx, clock, modem, iolog, result, query_result,
                   set_result, current_value, supplier_calls>>

\* send_at_command('ATE0')
SessionEchoSend ==
    /\ session.at = "echo_send"
    /\ StartTx(Some("ATE0"), DefaultTimeout)
    /\ session' = [session EXCEPT !.at = "echo"]
    /\ UNCHANGED <<ser, link, sms, sub, op, pc, query_result, set_result,
                   current_value, supplier_calls, slept, ret>>

\* not echo_result['success'] and echo_result['data'] == ''
NoResponse(echo_result) == ~echo_result.success /\ echo_result.data = ""

\* ATE0 has returned: after the first one the no-response test decides
\* whether detect_baudrate is called; the result of the retry is not looked at
SessionAfterEcho ==
    /\ session.at = "echo"
    /\ tx.at = "ret"
    /\ LET called == Append(session.calls,
                            Called("ATE0", OutcomeOf(result.success)))
       IN  IF ~session.detected
           THEN session' = [session EXCEPT
                              !.at = IF NoResponse(result) THEN "detect"
                                     ELSE "step",
                              !.calls = called]
           ELSE session' = [session EXCEPT !.at = "step", !.calls = called]
    /\ StepOver
    /\ UNCHANGED <<ser, link, sms, sub, op, pc, slept>>

\* the outcomes detect_baudrate can have: the candidate that answered, or 0
\* when none did
DetectOutcomes == 0..Len(common_baudrates)

\* what detect_baudrate leaves behind: the handle that was open is closed,
\* the candidates are probed and the handle of the one that answered is
\* left open with the configured read timeout
Detected(won) ==
    LET found == won > 0
        closed == HandlesAfter(link.handles, ser, CloseIfOpen(ser))
    IN  /\ ser' = IF found THEN "open" ELSE CloseIfOpen(ser)
        /\ link' = IF found
                   THEN [link EXCEPT
                           !.baudrate = common_baudrates[won],
                           !.ser_baudrate = common_baudrates[won],
                           !.ser_timeout = RestoredTimeout(link.timeout),
                           !.handles = closed + 1]
                   ELSE [link EXCEPT
                           !.baudrate =
                               common_baudrates[Len(common_baudrates)],
                           !.handles = closed]

\* detect_baudrate() is called and returns: False makes the session return
\* False, True is followed by the retry of ATE0
SessionDetect ==
    /\ session.at = "detect"
    /\ \E won \in DetectOutcomes :
         LET found == won > 0
         IN  /\ session' = [session EXCEPT
                              !.at = IF found THEN "echo_send" ELSE "exit",
                              !.detected = TRUE,
                              !.pending = IF found THEN @ ELSE Some(FALSE),
                              !.calls = Append(@, Called("detect_baudrate",
                                                         OutcomeOf(found)))]
             /\ Detected(won)
    /\ UNCHANGED <<sms, sub, op, pc, tx, clock, modem, iolog, result,
                   query_result, set_result, current_value, supplier_calls,
                   slept, ret>>

\* mutant: a step that failed does not stop the session
StepFailedIgnored(value) == FALSE

\* if not self.verify_module(): ... and the tests like it
StepFailed(value) == ~value

\* the outcomes an operation called by a session can have: it returns a
\* true or a false value, or raises when errors are left
StepOutcomes ==
    {"true", "false"} \cup (IF link.faults < MaxFaults THEN {"raised"} ELSE {})

\* the next operation of the session is called and returns or raises: a
\* false value or an exception puts the session on its way out with False,
\* otherwise the next operation is due; after the last the session is on
\* its way out with True
SessionStep ==
    /\ session.at = "step"
    /\ LET steps == StepsOf(session.flow)
           name == steps[session.k + 1]
       IN  IF session.k < Len(steps)
           THEN \E outcome \in StepOutcomes :
                  LET stops == outcome = "raised" \/ StepFailed(outcome = "true")
                  IN  /\ session' = [session EXCEPT
                                       !.at = IF stops THEN "exit" ELSE "step",
                                       !.k = @ + 1,
                                       !.pending = IF stops THEN Some(FALSE)
                                                   ELSE @,
                                       !.calls = Append(@, Called(name, outcome))]
                      /\ link' = [link EXCEPT
                                    !.faults = IF outcome = "raised" THEN @ + 1
                                               ELSE @]
           ELSE /\ session' = [session EXCEPT !.at = "exit",
                                              !.pending = Some(TRUE)]
                /\ UNCHANGED link
    /\ UNCHANGED <<ser, sms, sub, op, pc, tx, clock, modem, iolog, result,
                   query_result, set_result, current_value, supplier_calls,
                   slept, ret>>

\* except Exception: an ATE0 that raised puts the session on its way out
\* with False
SessionCaught ==
    /\ session.at = "echo"
    /\ tx.at = "raised"
    /\ session' = [session EXCEPT !.at = "exit", !.pending = Some(FALSE),
                                  !.calls = Append(@, Called("ATE0", "raised"))]
    /\ StepOver
    /\ UNCHANGED <<ser, link, sms, sub, op, pc, slept>>

\* mutant: no session disconnects on its way out
DisconnectsNever(flow) == FALSE

\* finally: self.disconnect(), in initialize and read_and_connect
Disconnects(flow) == flow \in {"initialize", "read_and_connect"}

\* the session leaves its try block: disconnect() if it has the finally
\* clause, then the return
SessionExit ==
    /\ session.at = "exit"
    /\ IF Disconnects(session.flow)
       THEN /\ ser' = CloseIfOpen(ser)
            /\ link' = [link EXCEPT
                          !.handles = HandlesAfter(@, ser, CloseIfOpen(ser))]
            /\ session' = [session EXCEPT
                             !.at = "returned",
                             !.calls = Append(@, Called("disconnect", "true"))]
       ELSE /\ session' = [session EXCEPT !.at = "returned"]
            /\ UNCHANGED <<ser, link>>
    /\ ret' = session.pending
    /\ pc' = "done"
    /\ UNCHANGED <<sms, sub, op, tx, clock, modem, iolog, result, query_result,
                   set_result, current_value, supplier_calls, slept>>

\* a driver whose link is in any state it can be in; one session is called
InitSession == Constructed({DefaultBaudrate}) /\ sms = NoSms

NextSession ==
    \/ CallSession
    \/ SessionConnect
    \/ SessionEchoSend
    \/ SessionAfterEcho
    \/ SessionDetect
    \/ SessionStep
    \/ SessionCaught
    \/ SessionExit
    \/ LoopIdle
    \/ LoopRead
    \/ LoopTimeout
    \/ LoopFault
    \/ BuildResult

SpecSession == InitSession /\ [][NextSession]_vars

(***************************************************************************)
(* Properties.  A transaction has returned when tx.at = "ret"; its capture *)
(* (tx.response_lines) and its result are then both in the state.          *)
(***************************************************************************)
\* the lines of a text: text.split('\n')
RECURSIVE LinesOfText(_)
LinesOfText(text) ==
    LET i == FirstIndex(text, "\n")
    IN  IF i = 0 THEN <<text>>
        ELSE <<SubSeq(text, 1, i - 1)>> \o
             LinesOfText(SubSeq(text, i + 1, Len(text)))

\* the transaction that has returned was run on an open link
Transacted == tx.at = "ret" /\ tx.writes = 1

\* the text written for a command
WriteOf(command) == [ev |-> "write", data |-> command \o "\r\n"]

\* the writes of the call so far, in order
IsWrite(e) == e.ev = "write"
Writes == SelectSeq(iolog, IsWrite)

NotAT(line) == line # "AT"

\* no captured line contains a terminal token
NoTerminalCaptured ==
    \A i \in 1..Len(tx.response_lines) :
        /\ ~Contains(tx.response_lines[i], "OK")
        /\ ~Contains(tx.response_lines[i], "ERROR")

\* C1: the data of a successful transaction holds no line equal to the
\* command (its echo), to OK or to ERROR.
C1_DataFreeOfEchoAndTokens ==
    (Transacted /\ result.success) =>
        \A i \in 1..Len(LinesOfText(result.data)) :
            LinesOfText(result.data)[i] \notin {tx.command, "OK", "ERROR"}

\* C2: on an open link, success is true exactly when some captured line
\* contains OK.
C2_SuccessIffOkCaptured ==
    Transacted =>
        (result.success <=>
            \E i \in 1..Len(tx.response_lines) :
                Contains(tx.response_lines[i], "OK"))

C2_Witness ==
    /\ Transacted
    /\ result.success
    /\ Len(tx.response_lines) = 2
    /\ result.data # ""

\* C3: a transaction never returns success = true with empty data when its
\* capture held an ERROR token.
C3_NoSuccessOverError ==
    tx.at = "ret" =>
        ~ /\ result.success
          /\ result.data = ""
          /\ \E i \in 1..Len(tx.response_lines) :
                Contains(tx.response_lines[i], "ERROR")

\* C4: on a link that is not open, send_at_command returns success = false
\* and empty data, and has done no reset, no write and no read.
C4_NotOpenNoIO ==
    (tx.at = "ret" /\ ~IsOpen) =>
        /\ result = MkResult(FALSE, "")
        /\ tx.resets = 0 /\ tx.writes = 0 /\ tx.reads = 0
        /\ iolog = <<>>

C4_Witness ==
    /\ tx.at = "ret"
    /\ ser = "closed"
    /\ op.name = "send_at_command"
    /\ result = MkResult(FALSE, "")

\* C5: when no captured line contains OK or ERROR, the capture loop is left
\* only once the timeout has elapsed, and the result is a failure whose data
\* is the partial capture as filtered (empty when nothing was captured).
C5_NoTerminalRunsToTimeout ==
    /\ (tx.at \in {"build", "ret"} /\ tx.writes = 1 /\ NoTerminalCaptured) =>
            clock - tx.start_time >= tx.timeout
    /\ (Transacted /\ NoTerminalCaptured) =>
            /\ ~result.success
            /\ result.data = Join(SelectSeq(tx.response_lines, NotAT), "\n")
            /\ (tx.response_lines = <<>> => result.data = "")

C5_Witness ==
    /\ Transacted
    /\ NoTerminalCaptured
    /\ Len(tx.response_lines) = 1
    /\ result.data # ""
    /\ clock >= tx.timeout

\* a reconciler has returned
ReconcilerDone(name) == pc = "done" /\ op.name = name

\* C6: numeric reconciliation whose query succeeds and whose parsed value
\* equals the expected one returns true having written the query only.
C6_AlreadyCorrectSendsNothing ==
    (/\ ReconcilerDone("check_and_set_status")
     /\ query_result.success
     /\ current_value = Some(op.expected_value)) =>
        /\ ret = Some(TRUE)
        /\ Writes = <<WriteOf(op.query_cmd)>>

C6_Witness ==
    /\ ReconcilerDone("check_and_set_status")
    /\ query_result.success
    /\ current_value = Some(op.expected_value)
    /\ ret = Some(TRUE)

\* the reconciler found the current state different from the desired one
\* and has a corrective command to send
NeedsCorrection ==
    \/ /\ ReconcilerDone("check_and_set_status")
       /\ query_result.success
       /\ current_value # None
       /\ current_value # Some(op.expected_value)
    \/ /\ ReconcilerDone("check_and_set_text_status")
       /\ query_result.success
       /\ ~Contains(query_result.data, op.ready_value)
       /\ op.supplied = "command"

\* C7: in both variants, when the state differs from the desired one (and
\* the supplier yields a command), the corrective command is written exactly
\* once, after the query, and the call returns the corrective transaction's
\* success flag.
C7_CorrectiveSentOnceAfterQuery ==
    NeedsCorrection =>
        /\ Writes = <<WriteOf(op.query_cmd), WriteOf(op.set_cmd)>>
        /\ set_result.none = FALSE
        /\ ret = Some(set_result.success)

C7_Witness ==
    /\ NeedsCorrection
    /\ op.name = "check_and_set_text_status"
    /\ Len(Writes) = 2
    /\ set_result.success = FALSE
    /\ ret = Some(FALSE)

\* C8: in both variants a failed query makes the call return false with no
\* further command written and the supplier not invoked.
C8_QueryFailureStops ==
    (/\ pc = "done"
     /\ op.name \in {"check_and_set_status", "check_and_set_text_status"}
     /\ ~query_result.success) =>
        /\ ret = Some(FALSE)
        /\ Writes = (IF IsOpen THEN <<WriteOf(op.query_cmd)>> ELSE <<>>)
        /\ supplier_calls = 0
        /\ set_result = NoResult

C8_Witness ==
    /\ ReconcilerDone("check_and_set_text_status")
    /\ IsOpen
    /\ ~query_result.success
    /\ query_result.data # ""
    /\ ret = Some(FALSE)

\* the text of data after the first occurrence of prefix
AfterPrefix(data, prefix) ==
    SubSeq(data, FirstIndex(data, prefix) + Len(prefix), Len(data))

\* text, cut before the first occurrence of prefix in it (if any)
UpToPrefix(text, prefix) ==
    IF Contains(text, prefix)
    THEN SubSeq(text, 1, FirstIndex(text, prefix) - 1)
    ELSE text

\* a base-10 integer as int() reads one: an optional sign, then digits,
\* any two of which may be separated by one underscore
IsDecimal(word) ==
    LET body == IF Len(word) > 0 /\ SubSeq(word, 1, 1) \in {"+", "-"}
                THEN SubSeq(word, 2, Len(word)) ELSE word
    IN  /\ Len(body) > 0
        /\ \A i \in 1..Len(body) :
              \/ SubSeq(body, i, i) \in Digits
              \/ /\ SubSeq(body, i, i) = "_"
                 /\ 1 < i /\ i < Len(body)
                 /\ SubSeq(body, i - 1, i - 1) \in Digits
                 /\ SubSeq(body, i + 1, i + 1) \in Digits

DecimalOf(word) ==
    IF SubSeq(word, 1, 1) = "-"
    THEN 0 - DigitStringValue(SubSeq(word, 2, Len(word)))
    ELSE IF SubSeq(word, 1, 1) = "+"
    THEN DigitStringValue(SubSeq(word, 2, Len(word)))
    ELSE DigitStringValue(word)

\* the integer a text starts with: its first whitespace-delimited token, if
\* that is a base-10 integer
LeadingInteger(text) ==
    LET word == FirstWord(LStrip(text))
    IN  IF IsDecimal(word) THEN Some(DecimalOf(word)) ELSE None

\* the value the claim expects of parse_response_value, as first stated:
\* the token is looked for in all the text after the prefix
ValueAfterPrefix(data, prefix) ==
    IF ~Contains(data, prefix) THEN None
    ELSE LeadingInteger(AfterPrefix(data, prefix))

\* and as amended: the token is looked for in the text between the first
\* occurrence of the prefix and its next occurrence
ValueBetweenPrefixes(data, prefix) ==
    IF ~Contains(data, prefix) THEN None
    ELSE LeadingInteger(UpToPrefix(AfterPrefix(data, prefix), prefix))

\* the numeric reconciler's query succeeded but no value was parsed
MalformedReply ==
    /\ ReconcilerDone("check_and_set_status")
    /\ query_result.success
    /\ current_value = None

\* C9 (as stated): parse_response_value returns None exactly when the reply
\* lacks the prefix or the first whitespace-delimited token after the prefix
\* is no base-10 integer, and that integer otherwise; on None the numeric
\* reconciler returns false without sending the corrective command.
C9_ParseTokenAfterPrefix ==
    /\ ReconcilerDone("parse_response_value") =>
            ret = ValueAfterPrefix(op.data, op.prefix)
    /\ (ReconcilerDone("check_and_set_status") /\ query_result.success) =>
            current_value = ValueAfterPrefix(query_result.data, op.prefix)
    /\ MalformedReply =>
            (ret = Some(FALSE) /\ Writes = <<WriteOf(op.query_cmd)>>)

\* C9 (amended): the same, the token being the first whitespace-delimited
\* token of the text between the first occurrence of the prefix and the next
\* occurrence of the prefix (the end of the reply when there is none).
C9_ParseTokenBetweenPrefixes ==
    /\ ReconcilerDone("parse_response_value") =>
            ret = ValueBetweenPrefixes(op.data, op.prefix)
    /\ (ReconcilerDone("check_and_set_status") /\ query_result.success) =>
            current_value = ValueBetweenPrefixes(query_result.data, op.prefix)
    /\ MalformedReply =>
            (ret = Some(FALSE) /\ Writes = <<WriteOf(op.query_cmd)>>)

C9_Witness ==
    /\ MalformedReply
    /\ Contains(query_result.data, op.prefix)
    /\ ret = Some(FALSE)

\* C10: textual reconciliation whose query succeeds, whose reply lacks the
\* ready literal and whose supplier yields None returns false having written
\* the query only.
C10_NoCommandNothingSent ==
    (/\ ReconcilerDone("check_and_set_text_status")
     /\ query_result.success
     /\ ~Contains(query_result.data, op.ready_value)
     /\ op.supplied = "none") =>
        /\ Writes = <<WriteOf(op.query_cmd)>>
        /\ ret = Some(FALSE)

C10_Witness ==
    /\ ReconcilerDone("check_and_set_text_status")
    /\ query_result.success
    /\ ~Contains(query_result.data, op.ready_value)
    /\ op.supplied = "none"
    /\ supplier_calls = 1
    /\ ret = Some(FALSE)

\* the whole capture of the transaction that has just returned, as one text
RawReply == Join(tx.response_lines, "\n")

\* C11 (as stated): textual reconciliation whose query succeeds with a raw
\* reply holding the ready literal returns true at once, writing nothing
\* after the query, whatever the ready literal is.
C11_RawReadyReturnsTrue ==
    [][(/\ pc = "query"
        /\ op.name = "check_and_set_text_status"
        /\ tx.at = "ret"
        /\ result.success
        /\ Contains(RawReply, op.ready_value)
        /\ pc' # "query") =>
           (/\ pc' = "done"
            /\ ret' = Some(TRUE)
            /\ iolog' = iolog)]_vars

\* C11 (amended): textual reconciliation whose query succeeds with reply data
\* (the capture without its lines AT, OK, ERROR) holding the ready literal
\* returns true having written the query only and never asked the supplier,
\* whatever the ready literal is.
C11_DataReadyReturnsTrue ==
    (/\ ReconcilerDone("check_and_set_text_status")
     /\ query_result.success
     /\ Contains(query_result.data, op.ready_value)) =>
        /\ ret = Some(TRUE)
        /\ Writes = <<WriteOf(op.query_cmd)>>
        /\ supplier_calls = 0

C11_Witness ==
    /\ ReconcilerDone("check_and_set_text_status")
    /\ query_result.success
    /\ Contains(query_result.data, op.ready_value)
    /\ op.ready_value = "READY"
    /\ Writes = <<WriteOf(op.query_cmd)>>
    /\ ret = Some(TRUE)

(***************************************************************************)
(* detect_baudrate, under SpecDetect.                                      *)
(***************************************************************************)
Detecting == op.name = "detect_baudrate"
DetectDone == Detecting /\ pc = "done"

\* the serial.Serial calls of the search that returned a handle
OpenedOk == SelectSeq(link.opens, LAMBDA call : call.ok)

\* the baudrate of the k-th probe, as the specification lists them
CandidateAt(k) ==
    CASE k = 1 -> 115200
      [] k = 2 -> 9600
      [] k = 3 -> 19200
      [] k = 4 -> 38400
      [] k = 5 -> 57600

\* C12: detect_baudrate opens the port at 115200, 9600, 19200, 38400, 57600
\* in that order and writes AT once on every handle it opened; a probe that
\* succeeds ends the search: true is returned, the link is open at that
\* baudrate, self.baudrate is that baudrate and no further candidate is tried.
C12_ProbesInOrderFirstSuccessWins ==
    Detecting =>
        /\ Len(link.opens) <= 5
        /\ \A k \in 1..Len(link.opens) : link.opens[k].baudrate = CandidateAt(k)
        /\ \A k \in 1..Len(Writes) : Writes[k] = WriteOf("AT")
        /\ Len(Writes) = Len(OpenedOk) - (IF pc = "opened" THEN 1 ELSE 0)
        /\ result.success => pc \in {"probing", "done"}
        /\ (pc = "done" /\ result.success) => ret = Some(TRUE)
        /\ (pc = "done" /\ ret = Some(TRUE)) =>
              /\ result.success
              /\ IsOpen
              /\ link.opens[Len(link.opens)].ok
              /\ link.baudrate = CandidateAt(Len(link.opens))
              /\ link.ser_baudrate = link.baudrate

C12_Witness ==
    /\ DetectDone
    /\ ret = Some(TRUE)
    /\ Len(Writes) = 2
    /\ IsOpen
    /\ link.baudrate = 9600

\* C13: every probe opens the port with the probe read timeout; when
\* detect_baudrate returns true the open handle has the configured timeout
\* again; when it returns false self.timeout is what it was and no handle
\* with that timeout is open.
C13_ProbeTimeoutRestored ==
    Detecting =>
        /\ \A k \in 1..Len(link.opens) : link.opens[k].timeout = ProbeReadTimeout
        /\ pc \in {"opened", "probing"} => link.ser_timeout = ProbeReadTimeout
        /\ link.timeout = ReadTimeout
        /\ (pc = "done" /\ ret = Some(TRUE)) =>
              IsOpen /\ link.ser_timeout = link.timeout
        /\ (pc = "done" /\ ret = Some(FALSE)) =>
              ~(IsOpen /\ link.ser_timeout = link.timeout)

C13_Witness ==
    /\ DetectDone
    /\ ret = Some(TRUE)
    /\ link.opens[Len(link.opens)].timeout = ProbeReadTimeout
    /\ link.ser_timeout = ReadTimeout
    /\ ProbeReadTimeout # ReadTimeout

\* C14: detect_baudrate returns true only after a successful probe; when it
\* returns false it has tried each of the five candidates once, none has
\* succeeded, and the link is closed.
C14_AllFailReturnsFalseClosed ==
    /\ (DetectDone /\ ret = Some(TRUE)) => result.success
    /\ (DetectDone /\ ret = Some(FALSE)) =>
          /\ Len(link.opens) = 5
          /\ \A k \in 1..5 : link.opens[k].baudrate = CandidateAt(k)
          /\ ~result.success
          /\ ~IsOpen
          /\ link.handles = 0

C14_Witness ==
    /\ DetectDone
    /\ ret = Some(FALSE)
    /\ Len(Writes) = 5
    /\ link.faults = 0
    /\ ser = "closed"

\* C15: a transport error while opening the port or during the liveness
\* transaction never leaves detect_baudrate: the handle is closed, the next
\* candidate is tried, and a later candidate can win.
C15_FaultsCaughtSearchGoesOn ==
    Detecting =>
        /\ pc # "raised"
        /\ pc = "probe" => Len(link.opens) = op.candidate - 1
        /\ (pc = "probe" /\ op.candidate > 1) => ~IsOpen
        /\ (pc = "done" /\ ret = Some(FALSE)) =>
              ~IsOpen /\ Len(link.opens) = 5

C15_Witness ==
    /\ DetectDone
    /\ link.faults = 1
    /\ Len(link.opens) = 2
    /\ Len(Writes) = 2
    /\ ret = Some(TRUE)

(***************************************************************************)
(* parse_sms_messages, under SpecParse.  sms.lines says how the text was   *)
(* put together; the records expected are read off that, not off the text. *)
(***************************************************************************)
\* the fields a header yields: its non-empty fields, trimmed
FieldsOf(line) ==
    LET kept == SelectSeq(line.fields, LAMBDA f : f # "")
    IN  [k \in DOMAIN kept |-> Strip(kept[k])]

WellFormed(line) == line.kind = "header" /\ Len(FieldsOf(line)) >= 4
Malformed(line) == line.kind = "header" /\ Len(FieldsOf(line)) < 4

\* a field without the quotes around it
WithoutQuotes(field) ==
    IF /\ Len(field) >= 2
       /\ SubSeq(field, 1, 1) = "\""
       /\ SubSeq(field, Len(field), Len(field)) = "\""
    THEN SubSeq(field, 2, Len(field) - 1)
    ELSE field

\* the record of a header and the line below it
RecordOf(header, below) ==
    [index |-> FieldsOf(header)[1],
     status |-> WithoutQuotes(FieldsOf(header)[2]),
     sender |-> WithoutQuotes(FieldsOf(header)[3]),
     timestamp |-> WithoutQuotes(FieldsOf(header)[4]),
     content |-> Strip(below.text)]

\* the lines are two-line groups, each led by a well-formed header
Grouped(lines) ==
    /\ Len(lines) % 2 = 0
    /\ \A g \in 1..(Len(lines) \div 2) : WellFormed(lines[2 * g - 1])

\* one record per group, in the order of the groups
RecordsOfGroups(lines) ==
    [g \in 1..(Len(lines) \div 2) |-> RecordOf(lines[2 * g - 1], lines[2 * g])]

Parsed == sms.returns # <<>>

CommaInTimestamp(line) ==
    /\ line.kind = "header"
    /\ Len(line.fields) = 4
    /\ \A k \in 1..4 : line.fields[k] # ""
    /\ WithoutQuotes(line.fields[4]) # line.fields[4]
    /\ Contains(line.fields[4], ",")

\* the text after the marker of a header line
AfterMarker(line) == SubSeq(line.text, Len("+CMGL:") + 1, Len(line.text))

\* C17: a comma inside double quotes does not separate: a header whose quoted
\* timestamp holds a comma yields exactly its 4 fields, and the record's
\* timestamp is the whole field, comma included.
C17_QuotedCommaKept ==
    (sms.lines # <<>> /\ CommaInTimestamp(sms.lines[1])) =>
        /\ HeaderParts(Strip(AfterMarker(sms.lines[1]))) = FieldsOf(sms.lines[1])
        /\ \A j \in 1..Len(sms.returns) :
             /\ Len(sms.returns[j]) >= 1
             /\ sms.returns[j][1].timestamp = WithoutQuotes(sms.lines[1].fields[4])
             /\ Contains(sms.returns[j][1].timestamp, ",")

C17_Witness ==
    /\ Parsed
    /\ sms.lines # <<>>
    /\ CommaInTimestamp(sms.lines[1])
    /\ sms.returns[1][1].timestamp = "23/10/15,10:20"

RECURSIVE AfterMalformedHeaders(_)
AfterMalformedHeaders(lines) ==
    IF lines # <<>> /\ Malformed(lines[1])
    THEN AfterMalformedHeaders(Tail(lines))
    ELSE lines

\* C19: a +CMGL: header of fewer than 4 fields gives no record and costs one
\* line only: the line below it is taken as a possible header, and the
\* groups that follow are returned.
C19_MalformedHeaderCostsOneLine ==
    (/\ sms.lines # <<>>
     /\ Malformed(sms.lines[1])
     /\ Grouped(AfterMalformedHeaders(sms.lines))) =>
        \A j \in 1..Len(sms.returns) :
            sms.returns[j] = RecordsOfGroups(AfterMalformedHeaders(sms.lines))

C19_Witness ==
    /\ Parsed
    /\ Len(sms.lines) = 3
    /\ Malformed(sms.lines[1])
    /\ WellFormed(sms.lines[2])
    /\ Len(sms.returns[1]) = 1
    /\ sms.returns[1][1].index = "0"
    /\ sms.returns[1][1].content = "Hi there"

\* C20: the content of a record is the trimmed line below its header, also
\* when that line is presented decoded.
C20_ContentStoredAsReceived ==
    Grouped(sms.lines) =>
        \A j \in 1..Len(sms.returns) :
            /\ Len(sms.returns[j]) = Len(sms.lines) \div 2
            /\ Len(sms.printed[j]) = Len(sms.lines) \div 2
            /\ \A g \in 1..Len(sms.returns[j]) :
                 sms.returns[j][g].content = Strip(sms.lines[2 * g].text)

C20_Witness ==
    /\ Parsed
    /\ Grouped(sms.lines)
    /\ Len(sms.lines) = 2
    /\ sms.lines[2].text = "00480069"
    /\ sms.returns[1][1].content = "00480069"
    /\ sms.printed[1][1] = "Hi"

(***************************************************************************)
(* The decode of a content line, under SpecDecode: the text is one header  *)
(* and the content line below it.                                          *)
(***************************************************************************)
\* the characters of a text that are no hexadecimal digits
NotHex(text) ==
    SelectSeq(text, LAMBDA c : c \notin {"0", "1", "2", "3", "4", "5", "6", "7",
                                         "8", "9", "a", "b", "c", "d", "e", "f",
                                         "A", "B", "C", "D", "E", "F"})

\* non-empty, of even length, hexadecimal digits only
HexLooking(text) ==
    /\ Len(text) > 0
    /\ Len(text) % 2 = 0
    /\ NotHex(text) = ""

\* the content line as received, trimmed
Received == Strip(sms.lines[2].text)

\* C21: the decode is tried exactly when the content is non-empty, of even
\* length and all hexadecimal; other content is presented as it is; a decode
\* that fails presents the raw text, and the parser returns its record.
C21_DecodeOnlyHexLooking ==
    (Len(sms.lines) = 2 /\ WellFormed(sms.lines[1])) =>
        \A j \in 1..Len(sms.returns) :
            /\ Len(sms.returns[j]) = 1
            /\ Len(sms.attempts[j]) = 1
            /\ Len(sms.printed[j]) = 1
            /\ (sms.attempts[j][1] # "none") <=> HexLooking(Received)
            /\ ~HexLooking(Received) => sms.printed[j][1] = Received
            /\ sms.attempts[j][1] = "failed" => sms.printed[j][1] = Received

C21_Witness ==
    /\ Parsed
    /\ Len(sms.lines) = 2
    /\ Received = "D800"
    /\ sms.attempts[1] = <<"failed">>
    /\ sms.printed[1] = <<"D800">>
    /\ sms.returns[1][1].content = "D800"


(***************************************************************************)
(* send_sms_message and send_sms, under SpecSms.                           *)
(***************************************************************************)
\* what the message call in progress has done on the link
MessageLog == SubSeq(iolog, sub.start + 1, Len(iolog))

\* the AT+CMGF=1 of the message call in progress has returned (result is
\* cmgf_result) and send_sms_message has acted on its result
CmgfReplied == sub.at \notin {"idle", "cmgf"} /\ ~result.none

\* the exchange of AT+CMGF=1 on an open link
CmgfExchange == <<[ev |-> "reset", data |-> ""], WriteOf("AT+CMGF=1")>>

\* C22: when AT+CMGF=1 fails, send_sms_message returns success false with
\* empty data and does nothing further on the link: no buffer reset, no
\* submission command, no body.
C22_CmgfFailureStops ==
    (CmgfReplied /\ ~result.success) =>
        /\ sub.result = MkResult(FALSE, "")
        /\ MessageLog = (IF IsOpen THEN CmgfExchange ELSE <<>>)

\* the modem answered AT+CMGF=1 with ERROR and the call has returned
C22_Witness ==
    /\ CmgfReplied
    /\ IsOpen
    /\ ~result.success
    /\ sub.at = "return"
    /\ sub.result = MkResult(FALSE, "")
    /\ MessageLog = CmgfExchange

\* the message body or the end byte has been written during the message call
BodyWritten ==
    \E k \in 1..Len(MessageLog) :
        /\ MessageLog[k].ev = "write"
        /\ MessageLog[k].data \in {sub.messages[sub.i], CtrlZ}

\* the prompt loop of the message call ran out of time
PromptTimedOut == sub.ended = "prompt_timeout"

\* C23: the body and the end byte are written only after a line holding '>'
\* was read; when the prompt loop runs out of time without such a line,
\* send_sms_message returns a failure and has written neither.
C23_NoPromptNoBody ==
    sub.i > 0 =>
        /\ BodyWritten => Contains(sub.prompt_line, ">")
        /\ PromptTimedOut =>
              /\ ~sub.result.none /\ ~sub.result.success
              /\ ~BodyWritten
              /\ \A k \in 1..Len(sub.response_lines) :
                    ~Contains(sub.response_lines[k], ">")

\* the modem echoed the submission command and answered ERROR; the prompt
\* loop ran out of time
C23_Witness ==
    /\ PromptTimedOut
    /\ sub.at = "return"
    /\ sub.response_lines = <<CmgsCommand(PhoneNumber), "ERROR">>
    /\ ~sub.result.success
    /\ Writes = <<WriteOf("AT+CMGF=1"), WriteOf(CmgsCommand(PhoneNumber))>>

\* the confirmation loop of the message call ran out of time
ConfirmTimedOut == sub.ended = "confirm_timeout"

\* C24: when the prompt loop or the confirmation loop runs out of time and
\* send_sms_message returns a failure, the data of the result are the lines
\* the loop had captured.
C24_TimeoutDataCarriesCapture ==
    ((PromptTimedOut \/ ConfirmTimedOut) /\ ~sub.result.success) =>
        sub.result.data = Join(sub.response_lines, "\n")

\* the body was written and send_sms_message has returned
SubmissionReturned == sub.ended \in {"final", "confirm_timeout"}

\* a line that holds a success indicator
IsSuccessLine(line) == Contains(line, "OK") \/ Contains(line, "+CMGS:")

\* the lines captured after the body that hold an indicator, in order
IndicatorLines ==
    SelectSeq(sub.response_lines,
              LAMBDA line : IsSuccessLine(line) \/ Contains(line, "ERROR"))

\* C25: once the body has been written, the result is a success exactly when
\* a line captured after it holds OK or +CMGS:; a failure line as the first
\* indicator, or the confirmation loop running out of time, gives a failure.
C25_SuccessIffIndicator ==
    SubmissionReturned =>
        /\ ~sub.result.none
        /\ sub.result.success <=>
              \E k \in 1..Len(sub.response_lines) :
                  IsSuccessLine(sub.response_lines[k])
        /\ (IndicatorLines # <<>> /\ ~IsSuccessLine(IndicatorLines[1])) =>
              ~sub.result.success
        /\ ConfirmTimedOut => ~sub.result.success

\* the modem echoed the body and confirmed with +CMGS:; the loop ended
\* before any OK
C25_Witness ==
    /\ SubmissionReturned
    /\ sub.response_lines = <<"one", "+CMGS: 5">>
    /\ sub.result = MkResult(TRUE, "one\n+CMGS: 5")
    /\ BodyWritten

\* send_sms has returned
SendSmsDone == op.name = "send_sms" /\ pc = "done"

\* a submission raised during the call
SubmissionRaised == sub.ended = "raised"

\* C28: send_sms hands the messages to send_sms_message one by one in list
\* order, each once and whatever the results before it; it returns true
\* exactly when every result was a success, and false when a submission
\* raised.
C28_EveryMessageOnceInOrder ==
    /\ Len(sub.attempted) <= Len(sub.messages)
    /\ sub.attempted = SubSeq(sub.messages, 1, Len(sub.attempted))
    /\ (SendSmsDone /\ ~SubmissionRaised) =>
          /\ sub.attempted = sub.messages
          /\ Len(sub.results) = Len(sub.messages)
          /\ ret = Some(\A k \in 1..Len(sub.results) : sub.results[k])
    /\ (SendSmsDone /\ SubmissionRaised) => ret = Some(FALSE)

\* the first of two messages failed, the second went through
C28_Witness ==
    /\ SendSmsDone
    /\ sub.attempted = <<"one", "two">>
    /\ sub.results = <<FALSE, TRUE>>
    /\ ret = Some(FALSE)

(***************************************************************************)
(* Transport errors during send_at_command and the reconcilers, under      *)
(* Spec.                                                                   *)
(***************************************************************************)
\* C26: a read or a write that fails during send_at_command, called
\* directly or by a reconciler, never leaves the operation as an exception:
\* the operation returns, and what it returns is a failure.
C26_FaultsReturnedAsValues ==
    link.faults > 0 =>
        /\ tx.at # "raised"
        /\ pc # "raised"
        /\ pc = "done" =>
              IF op.name = "send_at_command" THEN ~result.success
              ELSE ret = Some(FALSE)

(***************************************************************************)
(* The connection sessions, under SpecSession.                             *)
(***************************************************************************)
\* the session has returned
SessionReturned == session.at = "returned"

\* the calls of the session that have the given name
CallsOf(name) == SelectSeq(session.calls, LAMBDA call : call.name = name)

\* C27: in a session, detect_baudrate is called only after an ATE0 that
\* timed out with no line captured; an ATE0 answered with ERROR is followed
\* neither by detect_baudrate nor by a retry.
C27_OnlySilenceRenegotiates ==
    [][(session.at = "echo" /\ session'.at = "detect") =>
          tx.response_lines = <<>>]_vars

\* the steps of initialize, in order
InitializeSteps ==
    <<"connect", "ATE0", "verify_module", "check_and_enable_power",
      "check_and_set_pin", "check_and_set_sms_mode">>

\* the place of a call among the steps of initialize
StepRank(name) ==
    IF \E r \in 1..Len(InitializeSteps) : InitializeSteps[r] = name
    THEN CHOOSE r \in 1..Len(InitializeSteps) : InitializeSteps[r] = name
    ELSE 0

\* the calls of the session that are steps of initialize
StepCalls == SelectSeq(session.calls, LAMBDA call : StepRank(call.name) > 0)

\* the k-th step call is the last call of its step (ATE0 may be called
\* again after detect_baudrate)
LastOfStep(k) ==
    \A j \in (k + 1)..Len(StepCalls) : StepCalls[j].name # StepCalls[k].name

\* the steps in the given set are called in order, and one of them that
\* does not succeed is the last step called
StopsAtFirstFailure(stopping) ==
    /\ \A k \in 1..(Len(StepCalls) - 1) :
          StepRank(StepCalls[k].name) <= StepRank(StepCalls[k + 1].name)
    /\ \A k \in 1..Len(StepCalls) :
          (/\ StepCalls[k].name \in stopping
           /\ StepCalls[k].outcome # "true"
           /\ LastOfStep(k)) => k = Len(StepCalls)

\* the steps in the given set have all been called and have all succeeded
AllSucceeded(required) ==
    /\ \A name \in required : CallsOf(name) # <<>>
    /\ \A k \in 1..Len(StepCalls) :
          (StepCalls[k].name \in required /\ LastOfStep(k)) =>
              StepCalls[k].outcome = "true"

StepSet == {InitializeSteps[r] : r \in 1..Len(InitializeSteps)}

C30_DisconnectOnceOnEveryExit ==
    session.flow \in {"initialize", "read_and_connect"} =>
        /\ ~SessionReturned => CallsOf("disconnect") = <<>>
        /\ (SessionReturned /\ session.calls[1] = Called("connect", "true")) =>
              /\ Len(CallsOf("disconnect")) = 1
              /\ session.calls[Len(session.calls)].name = "disconnect"
              /\ ~IsOpen
        /\ (SessionReturned /\ session.calls[1] # Called("connect", "true")) =>
              /\ session.calls = <<Called("connect", "false")>>
              /\ ret = Some(FALSE)
              /\ iolog = <<>>

\* the first ATE0 of read_and_connect raised
C30_Witness ==
    /\ session.flow = "read_and_connect"
    /\ SessionReturned
    /\ session.calls = <<Called("connect", "true"), Called("ATE0", "raised"),
                          Called("disconnect", "true")>>
    /\ ret = Some(FALSE)


(***************************************************************************)
(* The settle delay of the numeric reconciler, under Spec.                 *)
(***************************************************************************)
\* check_and_set_status for the power setting has returned after sending its
\* corrective command
PowerCorrected ==
    /\ ReconcilerDone("check_and_set_status")
    /\ op.status_name = "Power"
    /\ ~set_result.none

\* C31 as stated: whenever the corrective command of the power setting was
\* sent, the call has slept the settle delay before it returns.
C31_SettleAfterEveryCorrective == PowerCorrected => slept = PowerSettle

\* C31, amended: the call sleeps the settle delay before it returns exactly
\* when the corrective command of the power setting succeeded; after a
\* corrective command that failed it returns false without sleeping.
C31_SettleAfterSuccessfulCorrective ==
    PowerCorrected =>
        /\ set_result.success => (slept = PowerSettle /\ ret = Some(TRUE))
        /\ ~set_result.success => (slept = 0 /\ ret = Some(FALSE))

\* the corrective command was answered with OK and the call slept
C31_Witness ==
    /\ PowerCorrected
    /\ set_result.success
    /\ slept = PowerSettle
    /\ Writes = <<WriteOf("AT+CFUN?"), WriteOf(op.set_cmd)>>


(***************************************************************************)
(* The corrective supplier of the textual reconciler, under Spec.          *)
(***************************************************************************)
\* C32: check_and_set_text_status asks its supplier for the corrective
\* command at most once per call, and only after a query that succeeded
\* with data lacking the ready literal; a call whose query failed or found
\* the ready literal returns without having asked it.
C32_SupplierAskedOnlyWhenNeeded ==
    op.name = "check_and_set_text_status" =>
        /\ supplier_calls <= 1
        /\ supplier_calls = 1 =>
              /\ ~query_result.none
              /\ query_result.success
              /\ ~Contains(query_result.data, op.ready_value)
        /\ (pc = "done" /\ (~query_result.success
                              \/ Contains(query_result.data, op.ready_value))) =>
              (supplier_calls = 0 /\ op.supplied = "unasked")

\* the PIN query was answered with READY: the supplier was not asked
C32_Witness ==
    /\ ReconcilerDone("check_and_set_text_status")
    /\ op.ready_value = "READY"
    /\ query_result = MkResult(TRUE, "+CPIN: READY")
    /\ supplier_calls = 0
    /\ ret = Some(TRUE)


\* what a message call writes on an open link when it goes all the way
FullSubmission ==
    CmgfExchange \o
    <<[ev |-> "reset", data |-> ""], WriteOf(CmgsCommand(PhoneNumber)),
      [ev |-> "write", data |-> sub.messages[sub.i]],
      [ev |-> "write", data |-> CtrlZ]>>

\* C33: after the AT+CMGF=1 exchange send_sms_message discards stale input,
\* writes the AT+CMGS command with CR LF, and only once a line holding '>'
\* has been read writes the body as it is, followed at once by the end byte;
\* nothing else is written and the body never precedes the prompt.
C33_WritesInOrder ==
    sub.i > 0 =>
        /\ \E n \in {0, 2, 4, 6} : MessageLog = SubSeq(FullSubmission, 1, n)
        /\ Len(MessageLog) = 6 <=> Contains(sub.prompt_line, ">")
        /\ sub.at = "prompt" => Len(MessageLog) = 4

\* the prompt was read and the body and the end byte have been written
C33_Witness ==
    /\ sub.at = "confirm"
    /\ sub.prompt_line = ">"
    /\ MessageLog = FullSubmission
    /\ MessageLog[5].data = "one"
    /\ MessageLog[6].data = CtrlZ


(***************************************************************************)
(* The capture loop of send_at_command, under Spec.                        *)
(***************************************************************************)
\* a captured line holds a terminal token
TerminalCaptured ==
    \E k \in 1..Len(tx.response_lines) :
        \/ Contains(tx.response_lines[k], "OK")
        \/ Contains(tx.response_lines[k], "ERROR")

\* the capture loop is over and the timeout had not elapsed
LeftEarly ==
    /\ tx.at \in {"build", "ret"}
    /\ tx.writes = 1
    /\ (clock - tx.start_time) < tx.timeout

\* C34: final_response_seen holds exactly when a captured line holds OK or
\* ERROR; the capture loop ends before the timeout only with
\* final_response_seen and more than the quiescence window since the last
\* non-empty line; until then every line read is appended, after the
\* terminal line as before it.
C34_TerminalSeenAndQuiescence ==
    /\ [](tx.at \in {"loop", "build", "ret"} =>
            (tx.final_response_seen <=> TerminalCaptured))
    /\ [](LeftEarly =>
            /\ tx.final_response_seen
            /\ (clock - tx.last_data_time) > QuiescenceWindow)
    /\ [][(tx.at = "loop" /\ tx'.reads = tx.reads + 1) =>
            \/ tx'.response_lines = tx.response_lines
            \/ /\ Len(tx'.response_lines) = Len(tx.response_lines) + 1
               /\ SubSeq(tx'.response_lines, 1, Len(tx.response_lines))
                    = tx.response_lines
               /\ tx'.last_data_time = clock]_vars

\* a line came after the terminal line, inside the window, and is in the
\* capture of a loop that ended before the timeout
C34_Witness ==
    /\ LeftEarly
    /\ tx.at = "ret"
    /\ tx.response_lines = <<"OK", "SIM800 R14.18">>
    /\ result = MkResult(TRUE, "SIM800 R14.18")


\* a transaction on an open link is in its capture loop or past it
InFlight == tx.at \in {"loop", "build", "ret"} /\ tx.writes = 1

\* C35: a send_at_command on an open link has discarded the stale input and
\* then written its command followed by CR LF, once, before it reads any
\* line; nothing is written while its capture loop runs.
C35_OneWritePerTransaction ==
    /\ [](InFlight =>
            /\ tx.resets = 1
            /\ Len(iolog) >= 2
            /\ iolog[Len(iolog) - 1] = [ev |-> "reset", data |-> ""]
            /\ iolog[Len(iolog)] = [ev |-> "write",
                                    data |-> tx.command \o "\r\n"])
    /\ [][tx.at = "loop" => iolog' = iolog]_vars

\* the corrective command of a reconciler is in its capture loop and a line
\* of its reply has been read
C35_Witness ==
    /\ InFlight
    /\ tx.at = "loop"
    /\ tx.reads = 1
    /\ pc = "set"
    /\ iolog = <<[ev |-> "reset", data |-> ""], WriteOf(op.query_cmd),
                 [ev |-> "reset", data |-> ""], WriteOf(op.set_cmd)>>


(***************************************************************************)
(* The link over several calls: connect(), setup_connection(),             *)
(* detect_baudrate() and disconnect() called one after another on one      *)
(* driver.  The transactions inside setup_connection are summarised by     *)
(* whether the first ATE0 was answered.                                    *)
(***************************************************************************)
MaxCalls == 3

Logged(name, value) == Append(session.calls, Called(name, OutcomeOf(value)))

LinkIdle == pc = "idle" /\ Len(session.calls) < MaxCalls

LinkRest == UNCHANGED <<sms, sub, op, tx, clock, modem, iolog, result,
                        query_result, set_result, current_value,
                        supplier_calls, slept>>

\* connect(): self.ser is bound to a new handle, whatever it was bound to
LinkConnect ==
    /\ LinkIdle
    /\ \E ok \in OpenOutcomes, handles \in Rebound(link.handles, ser) :
         LET call == [baudrate |-> link.baudrate, timeout |-> link.timeout,
                      ok |-> ok]
         IN  /\ ser' = IF ok THEN "open" ELSE ser
             /\ link' = IF ok
                        THEN [link EXCEPT !.ser_baudrate = link.baudrate,
                                          !.ser_timeout = link.timeout,
                                          !.handles = handles,
                                          !.opens = Append(@, call)]
                        ELSE [link EXCEPT !.opens = Append(@, call),
                                          !.faults = @ + 1]
             /\ session' = [session EXCEPT !.calls = Logged("connect", ok)]
             /\ ret' = Some(ok)
    /\ UNCHANGED pc
    /\ LinkRest

\* disconnect(): the handle is closed if it is open
LinkDisconnect ==
    /\ LinkIdle
    /\ ser' = CloseIfOpen(ser)
    /\ link' = [link EXCEPT !.handles = HandlesAfter(@, ser, CloseIfOpen(ser))]
    /\ session' = [session EXCEPT !.calls = Logged("disconnect", TRUE)]
    /\ ret' = None
    /\ UNCHANGED pc
    /\ LinkRest

\* detect_baudrate()
LinkDetect ==
    /\ LinkIdle
    /\ \E won \in DetectOutcomes :
         /\ Detected(won)
         /\ session' = [session EXCEPT
                          !.calls = Logged("detect_baudrate", won > 0)]
         /\ ret' = Some(won > 0)
    /\ UNCHANGED pc
    /\ LinkRest

\* setup_connection(): the port is opened if no handle is open
LinkSetupOpen ==
    /\ LinkIdle
    /\ IF OpensPort("setup_connection", ser)
       THEN \E ok \in OpenOutcomes :
              LET call == [baudrate |-> link.baudrate, timeout |-> link.timeout,
                           ok |-> ok]
              IN  IF ok
                  THEN /\ ser' = "open"
                       /\ link' = [link EXCEPT !.ser_baudrate = link.baudrate,
                                               !.ser_timeout = link.timeout,
                                               !.handles = @ + 1,
                                               !.opens = Append(@, call)]
                       /\ pc' = "setup"
                       /\ UNCHANGED <<session, ret>>
                  ELSE /\ link' = [link EXCEPT !.opens = Append(@, call),
                                               !.faults = @ + 1]
                       /\ session' = [session EXCEPT
                                        !.calls = Logged("setup_connection",
                                                         FALSE)]
                       /\ ret' = Some(FALSE)
                       /\ UNCHANGED <<ser, pc>>
       ELSE /\ pc' = "setup"
            /\ UNCHANGED <<ser, link, session, ret>>
    /\ LinkRest

\* setup_connection(), after the first ATE0: answered, it returns True;
\* unanswered, detect_baudrate is called and its failure returned
LinkSetupEcho ==
    /\ pc = "setup"
    /\ \E answered \in BOOLEAN, won \in DetectOutcomes :
         LET value == answered \/ won > 0
         IN  /\ IF answered THEN UNCHANGED <<ser, link>> ELSE Detected(won)
             /\ session' = [session EXCEPT
                              !.calls = Logged("setup_connection", value)]
             /\ ret' = Some(value)
    /\ pc' = "idle"
    /\ LinkRest

InitLink == Constructed({DefaultBaudrate}) /\ sms = NoSms

NextLink ==
    \/ LinkConnect
    \/ LinkDisconnect
    \/ LinkDetect
    \/ LinkSetupOpen
    \/ LinkSetupEcho

SpecLink == InitLink /\ [][NextLink]_vars

\* C36: after any sequence of connect, setup_connection, detect_baudrate
\* and disconnect calls at most one handle is open on the port: opening the
\* link again closes the handle that was open before
C36_AtMostOneHandle == link.handles <= 1


\* C37: detect_baudrate changes the configured baudrate only when it
\* succeeds: when it has returned False the driver still has the baudrate
\* it was constructed with, the one it had before the call
C37_FailureKeepsBaudrate ==
    (DetectDone /\ ret = Some(FALSE)) => link.baudrate \in ConstructorBaudrates


\* the places of the lines taken as the header of a record, from the i-th
\* line on: the line below such a header is passed over
RECURSIVE HeadersFrom(_, _)
HeadersFrom(lines, i) ==
    IF i > Len(lines) THEN <<>>
    ELSE IF WellFormed(lines[i]) THEN <<i>> \o HeadersFrom(lines, i + 2)
    ELSE HeadersFrom(lines, i + 1)

\* the line below the p-th, an empty one if the p-th is the last
Below(lines, p) == IF p + 1 <= Len(lines) THEN lines[p + 1] ELSE ContentLine("")

\* C38: a line taken as the content of a record is never looked at as a
\* header: the records are those of the headers of at least 4 fields that
\* are not themselves the content of the record before, so a header right
\* below such a header is the first one's content and gives no record, and
\* a header on the last line gives a record of empty content.
C38_ContentNeverHeader ==
    \A j \in 1..Len(sms.returns) :
        LET taken == HeadersFrom(sms.lines, 1)
        IN  /\ Len(sms.returns[j]) = Len(taken)
            /\ \A r \in 1..Len(taken) :
                 sms.returns[j][r] =
                     RecordOf(sms.lines[taken[r]], Below(sms.lines, taken[r]))

C38_Witness ==
    /\ Parsed
    /\ Len(sms.lines) = 3
    /\ \A k \in 1..3 : WellFormed(sms.lines[k])
    /\ Len(sms.returns[1]) = 2
    /\ sms.returns[1][1].index = "0"
    /\ sms.lines[2].fields[1] = " 1 "
    /\ StartsWith(sms.returns[1][1].content, "+CMGL:")
    /\ \A r \in 1..2 : sms.returns[1][r].index # "1"
    /\ sms.returns[1][2].index = "0"
    /\ sms.returns[1][2].content = ""


(***************************************************************************)
(* The header tokenizer on its own: one listing entry whose header has any *)
(* fields, empty ones among them, at any place.                            *)
(***************************************************************************)
MaxFields == 5

\* what stands between the commas of a header: nothing, a number, a quoted
\* text, a text with blanks around it
FieldPool == {"", "7", "\"S\"", " x "}

HeadersUpTo(n) == UNION {[1..k -> FieldPool] : k \in 1..n}

\* a reader that has been handed one listing entry
InitTokens ==
    /\ Constructed({DefaultBaudrate})
    /\ ser = "none"
    /\ \E fields \in HeadersUpTo(MaxFields) :
         sms = Handed(<<HeaderLine(fields), ContentLine("Hi")>>)

SpecTokens == InitTokens /\ [][NextParse]_vars

\* a header with an empty field at one of its places
HasEmptyField(line) == \E k \in 1..Len(line.fields) : line.fields[k] = ""

\* C39: the tokenizer drops the empty fields of a header (two commas side by
\* side, a comma at the start or at the end) instead of keeping them: the
\* fields after an empty one move one place to the left, and a header of
\* exactly 4 places one of which is empty is passed over as having fewer
\* than 4 fields.
C39_EmptyFieldsDropped ==
    LET line == sms.lines[1]
        parts == HeaderParts(Strip(AfterMarker(line)))
        kept == SelectSeq(line.fields, LAMBDA f : f # "")
    IN  /\ Len(parts) = Len(kept)
        /\ \A k \in 1..Len(kept) : parts[k] = Strip(kept[k])
        /\ \A j \in 1..Len(sms.returns) :
             /\ Len(kept) >= 4 =>
                  sms.returns[j] = <<RecordOf(line, sms.lines[2])>>
             /\ (Len(line.fields) = 4 /\ HasEmptyField(line)) =>
                  sms.returns[j] = <<>>

C39_Witness ==
    /\ Parsed
    /\ sms.lines[1].fields = <<"7", "", "\"S\"", " x ", "7">>
    /\ Len(sms.returns[1]) = 1
    /\ sms.returns[1][1].status = "S"
    /\ sms.returns[1][1].sender = "x"
    /\ sms.returns[1][1].timestamp = "7"


\* C40: when setup_connection has returned True, a transaction of the
\* session had success true: the first ATE0, or the AT probe that made
\* detect_baudrate return True; a first ATE0 that failed with data does not
\* end in True.
C40_TrueNeedsASuccessfulTransaction ==
    (session.flow = "setup_connection" /\ SessionReturned /\ ret = Some(TRUE)) =>
        \/ CallsOf("ATE0")[1].outcome = "true"
        \/ \E k \in 1..Len(CallsOf("detect_baudrate")) :
             CallsOf("detect_baudrate")[k].outcome = "true"

=============================================================================
